---- MODULE Spec2Model ----
(***************************************************************************)
(* A model of optionmc's pricing engine (optionmc/models.py): the          *)
(* OptionPricing object, numpy's process-wide random generator, and the    *)
(* six operations of the class.                                            *)
(*                                                                         *)
(* Floating-point numbers are modelled in decimal fixed point with Scale   *)
(* units to 1.0, every product and quotient rounded to the nearest unit.   *)
(* exp, log, sqrt, the normal CDF and its inverse are computed (series,    *)
(* integer square root, bisection), not tabulated.  IEEE's NaN and the two *)
(* infinities are three values outside the finite range.                   *)
(***************************************************************************)
EXTENDS Integers, Sequences, FiniteSets, TLC

\* ------------------------------------------------------------------------
\* Fixed-point arithmetic (numpy float64)
\* ------------------------------------------------------------------------

\* Units to 1.0.
Scale == 10^4

One == Scale

Half == Scale \div 2

\* The IEEE special values a float64 computation can produce.
NaN == -1000000000

PosInf == 1000000001

NegInf == -1000000001

IsFinite(x) == x # NaN /\ x # PosInf /\ x # NegInf

Abs(x) == IF x < 0 THEN -x ELSE x

\* n as a fixed-point number.
Fx(n) == n * Scale

\* n hundredths as a fixed-point number.
Pct(n) == n * (Scale \div 100)

\* a * b, rounded to the nearest unit; NaN propagates.  The product is
\* assembled from the integer and fractional parts of the factors so that no
\* intermediate value exceeds the result by more than Scale^2.
FMulFin(a, b) ==
    LET q == a \div Scale
        r == a % Scale
        p == b \div Scale
        t == b % Scale
    IN  q * p * Scale + q * t + r * p + (r * t + Half) \div Scale

FMul(a, b) ==
    IF a = NaN \/ b = NaN THEN NaN
    ELSE IF IsFinite(a) /\ IsFinite(b) THEN FMulFin(a, b)
    ELSE IF a = 0 \/ b = 0 THEN NaN
    ELSE IF (a > 0) = (b > 0) THEN PosInf ELSE NegInf

\* a / b for finite a and b > 0, rounded to the nearest unit (long division
\* in base 100, two digits).
FDivPos(a, b) ==
    LET q0 == a \div b
        r0 == a % b
        q1 == (r0 * 100) \div b
        r1 == (r0 * 100) % b
        q2 == (r1 * 100 + b \div 2) \div b
    IN  q0 * Scale + q1 * 100 + q2

\* numpy's float64 division: x / 0 is +-inf (nan for 0 / 0) with a
\* RuntimeWarning, never an exception.
FDiv(a, b) ==
    IF a = NaN \/ b = NaN THEN NaN
    ELSE IF ~IsFinite(a) \/ ~IsFinite(b) THEN NaN
    ELSE IF b = 0 THEN (IF a = 0 THEN NaN ELSE IF a > 0 THEN PosInf ELSE NegInf)
    ELSE IF b > 0 THEN FDivPos(a, b)
    ELSE FDivPos(-a, -b)

FAdd(a, b) ==
    IF a = NaN \/ b = NaN THEN NaN
    ELSE IF IsFinite(a) /\ IsFinite(b) THEN a + b
    ELSE IF IsFinite(a) THEN b
    ELSE IF IsFinite(b) THEN a
    ELSE IF a = b THEN a ELSE NaN

FNeg(a) ==
    IF a = NaN THEN NaN
    ELSE IF a = PosInf THEN NegInf
    ELSE IF a = NegInf THEN PosInf
    ELSE -a

FSub(a, b) == FAdd(a, FNeg(b))

\* The integer square root of n >= 0, by Newton's iteration from above.
RECURSIVE ISqrtFrom(_, _)
ISqrtFrom(n, x) ==
    LET y == (x + n \div x) \div 2
    IN  IF y >= x THEN x ELSE ISqrtFrom(n, y)

ISqrt(n) == IF n = 0 THEN 0 ELSE ISqrtFrom(n, n)

\* The largest integer the arithmetic may reach.
MaxInt == 2^30 + (2^30 - 1)

\* np.sqrt: nan below 0; four decimal places, three when x is too large for
\* the radicand x * Scale.
FSqrt(x) ==
    IF x = NaN \/ x = NegInf THEN NaN
    ELSE IF x = PosInf THEN PosInf
    ELSE IF x < 0 THEN NaN
    ELSE IF x <= MaxInt \div Scale THEN ISqrt(x * Scale)
    ELSE 10 * ISqrt(x * (Scale \div 100))

\* exp(x) for finite x >= 0: the Taylor series, summed until a term rounds
\* to nothing.
RECURSIVE ExpSeries(_, _, _, _)
ExpSeries(x, k, term, acc) ==
    IF term = 0 THEN acc
    ELSE ExpSeries(x, k + 1, (FMulFin(term, x) + k \div 2) \div k, acc + term)

\* np.exp.
FExp(x) ==
    IF x = NaN THEN NaN
    ELSE IF x = PosInf THEN PosInf
    ELSE IF x = NegInf THEN 0
    ELSE IF x >= 0 THEN ExpSeries(x, 1, One, 0)
    ELSE FDivPos(One, ExpSeries(-x, 1, One, 0))

\* log(x) for finite x > 0: 2 * atanh((x - 1) / (x + 1)), by its series,
\* summed until a term rounds to nothing.
RECURSIVE AtanhSeries(_, _, _, _)
AtanhSeries(y2, k, power, acc) ==
    IF (Abs(power) + k \div 2) \div k = 0 THEN acc
    ELSE AtanhSeries(y2, k + 2, FMulFin(power, y2),
                     acc + (IF power >= 0 THEN (power + k \div 2) \div k
                            ELSE -((-power + k \div 2) \div k)))

\* np.log.
FLn(x) ==
    IF x = NaN THEN NaN
    ELSE IF x = PosInf THEN PosInf
    ELSE IF x = NegInf \/ x < 0 THEN NaN
    ELSE IF x = 0 THEN NegInf
    ELSE LET y == FDiv(x - One, x + One)
         IN  2 * AtanhSeries(FMulFin(y, y), 1, y, 0)

\* 1 / sqrt(2 * pi).
InvSqrt2Pi == (39894 * Scale) \div 100000

\* The series of the normal CDF about 0 for finite x >= 0:
\* Phi(x) = 1/2 + (1/sqrt(2 pi)) * sum_k (-1)^k x^(2k+1) / (2^k k! (2k+1)).
RECURSIVE PhiSeries(_, _, _, _)
PhiSeries(x2, k, term, acc) ==
    IF term = 0 THEN acc
    ELSE PhiSeries(x2, k + 1,
                   (FMulFin(term, x2) + (k + 1)) \div (2 * (k + 1)),
                   acc + (IF k % 2 = 0 THEN 1 ELSE -1)
                         * ((term + (2 * k + 1) \div 2) \div (2 * k + 1)))

PhiPos(x) ==
    LET v == Half + FMulFin(InvSqrt2Pi, PhiSeries(FMulFin(x, x), 0, x, 0))
    IN  IF v > One THEN One ELSE v

\* scipy.stats.norm.cdf.
norm_cdf(x) ==
    IF x = NaN THEN NaN
    ELSE IF x = PosInf THEN One
    ELSE IF x = NegInf THEN 0
    ELSE IF x >= 0 THEN PhiPos(x)
    ELSE One - PhiPos(-x)

\* scipy.stats.norm.ppf for 1/2 <= p < 1, by bisection on the CDF: the least
\* x of (lo, hi] whose CDF reaches p.
RECURSIVE PpfBisect(_, _, _)
PpfBisect(p, lo, hi) ==
    IF hi - lo <= 1 THEN hi
    ELSE LET mid == (lo + hi) \div 2
         IN  IF PhiPos(mid) >= p THEN PpfBisect(p, lo, mid)
             ELSE PpfBisect(p, mid, hi)

\* The CDF is 1 to four decimal places from here on.
PpfMax == Fx(5)

\* scipy.stats.norm.ppf.
norm_ppf(p) ==
    IF ~IsFinite(p) \/ p < 0 \/ p > One THEN NaN
    ELSE IF p = 0 THEN NegInf
    ELSE IF p = One THEN PosInf
    ELSE IF p = Half THEN 0
    ELSE IF p > Half THEN PpfBisect(p, 0, PpfMax)
    ELSE -PpfBisect(One - p, 0, PpfMax)

\* np.maximum: NaN propagates.
FMax(a, b) == IF a = NaN \/ b = NaN THEN NaN ELSE IF a >= b THEN a ELSE b

\* The sum of s[lo..hi], by halves (numpy sums pairwise).
RECURSIVE FSumRange(_, _, _)
FSumRange(s, lo, hi) ==
    IF lo > hi THEN 0
    ELSE IF lo = hi THEN s[lo]
    ELSE LET mid == (lo + hi) \div 2
         IN  FAdd(FSumRange(s, lo, mid), FSumRange(s, mid + 1, hi))

\* np.sum.
FSum(s) == FSumRange(s, 1, Len(s))

\* a / n for an integer n > 0, rounded to the nearest unit.
FDivInt(a, n) == IF IsFinite(a) THEN (a + n \div 2) \div n ELSE a

\* np.mean: the mean of an empty array is nan (a RuntimeWarning, no
\* exception).
np_mean(s) == IF Len(s) = 0 THEN NaN ELSE FDivInt(FSum(s), Len(s))

\* np.std(s, ddof): the square root of the sum of squared deviations from
\* the mean over Len(s) - ddof; nan when that divisor is not positive.
np_std(s, ddof) ==
    LET m == np_mean(s)
        sq == [i \in DOMAIN s |-> FMul(FSub(s[i], m), FSub(s[i], m))]
    IN  IF Len(s) - ddof <= 0 THEN NaN
        ELSE FSqrt(FDivInt(FSum(sq), Len(s) - ddof))

\* ------------------------------------------------------------------------
\* Bounds and parameter sets
\* ------------------------------------------------------------------------

\* Iteration counts 1..MaxN are modelled, and two counts that reach the
\* sub-sampling of confidence_intervals: n_samples (sub-runs of one path) and
\* 3 * n_samples + 1 (sub-runs of three paths, one iteration left over).
MaxN == 3

\* The generator's stream repeats with this period.
Period == 2

\* Operations per run.
MaxOps == 2

\* n_samples of confidence_intervals.
n_samples == 30

S0Dom == {Fx(100)}

EDom == {Fx(100), Fx(110)}

TDom == {Pct(25), Fx(1)}

RfDom == {Pct(5)}

\* __init__ validates nothing: a volatility of 0 is accepted.
SigmaDom == {0, Pct(20)}

Iterations == (1..MaxN) \cup {n_samples, 3 * n_samples + 1}

\* The values a standard normal draw takes in the model.
ZDom == {-Pct(120), 0, Pct(120)}

\* The confidence levels passed to confidence_intervals.
ConfDom == {Pct(90), Pct(95)}

\* Parameter sets __init__ accepts as it accepts any other: a maturity of 0,
\* a negative volatility, a negative initial price.
Degenerate ==
    {[S0 |-> Fx(100), E |-> e, T |-> 0, rf |-> Pct(5), sigma |-> Pct(20),
      iterations |-> n] : e \in EDom, n \in {2, n_samples}}
    \cup {[S0 |-> Fx(100), E |-> Fx(100), T |-> Fx(1), rf |-> Pct(5),
           sigma |-> -Pct(20), iterations |-> 3],
          [S0 |-> -Fx(100), E |-> Fx(100), T |-> Fx(1), rf |-> Pct(5),
           sigma |-> Pct(20), iterations |-> 3]}

Params ==
    [S0 : S0Dom, E : EDom, T : TDom, rf : RfDom, sigma : SigmaDom,
     iterations : Iterations]
    \cup Degenerate

\* ------------------------------------------------------------------------
\* State
\* ------------------------------------------------------------------------

VARIABLES
    pricer,     \* the OptionPricing object: S0, E, T, rf, sigma, iterations
    stream,     \* the values numpy's global generator yields, cyclically
    pos,        \* the generator's state: the next position of stream
    consumed,   \* the number of draws taken from the generator so far
    nops,       \* the number of operations completed
    last,       \* the operation completed last
    batch,      \* the locals and the return value of the last pricing call
    est,        \* the caller's latest Monte Carlo price and its kind
    bs,         \* the locals and the return value of bs_analytical_price
    ci,         \* the locals and the return value of confidence_intervals
    entry,      \* what the process runs: the library, utils, the visualizer
                \* or the CLI
    fs,         \* the file system: directories, and files with their content
    io,         \* the last call of a function of utils or of a plot operation
    cli,        \* the run of the price command: its arguments and outcome
    visualizer  \* the OptionVisualizer object: output_dir

vars ==
    <<pricer, stream, pos, consumed, nops, last, batch, est, bs, ci,
      entry, fs, io, cli, visualizer>>

\* A call of a method of OptionPricing: it touches no file.
LibraryCall ==
    /\ entry = "library"
    /\ nops < MaxOps
    /\ UNCHANGED <<entry, fs, io, cli, visualizer>>

\* ------------------------------------------------------------------------
\* numpy's global generator
\* ------------------------------------------------------------------------

\* The generator's state after n draws from state ps.
Advance(ps, n) == ((ps - 1 + n) % Period) + 1

\* np.random.normal(0, 1, [1, n]) from state ps: the next n values of the
\* stream, which repeats after Len(st) values.
Normal(st, ps, n) == [i \in 1..n |-> st[((ps - 1 + i - 1) % Len(st)) + 1]]

\* ------------------------------------------------------------------------
\* OptionPricing
\* ------------------------------------------------------------------------

\* __init__.
OptionPricing(S0, E, T, rf, sigma, iterations) ==
    [S0 |-> S0, E |-> E, T |-> T, rf |-> rf, sigma |-> sigma,
     iterations |-> iterations]

\* S0 * exp(T * (rf - 0.5 * sigma**2) + sigma * sqrt(T) * z): the terminal
\* price of one path.
terminal_price(p, z) ==
    FMul(p.S0,
         FExp(FAdd(FMul(p.T, FSub(p.rf, FMul(Half, FMul(p.sigma, p.sigma)))),
                   FMul(FMul(p.sigma, FSqrt(p.T)), z))))

\* stock_price: terminal_price elementwise over rand (evaluated once for each
\* distinct value of rand).
gbm(p, rand) ==
    LET values == {rand[i] : i \in DOMAIN rand}
        price == CHOOSE f \in {[z \in values |-> terminal_price(p, z)]} : TRUE
    IN  [i \in DOMAIN rand |-> price[rand[i]]]

\* (A variant of call_payoff: the distance from the strike.)
call_payoff_abs(S_T, E) == FMax(FSub(S_T, E), FSub(E, S_T))

\* np.maximum(stock_price - E, 0).
call_payoff(S_T, E) == FMax(FSub(S_T, E), 0)

\* (A variant of put_payoff: the call's difference, as after a copy of the
\* call simulation left unedited.)
put_payoff_as_call(S_T, E) == FMax(FSub(S_T, E), 0)

\* np.maximum(E - stock_price, 0).
put_payoff(S_T, E) == FMax(FSub(E, S_T), 0)

\* (A variant of option_price: the payoffs reduced in two parts, the mean of
\* the first half and the mean of the rest averaged.)
option_price_mean_of_means(p, payoffs) ==
    FMul(FExp(FMul(FNeg(p.rf), p.T)),
         IF Len(payoffs) < 2 THEN np_mean(payoffs)
         ELSE FDivInt(FAdd(np_mean(SubSeq(payoffs, 1, Len(payoffs) \div 2)),
                           np_mean(SubSeq(payoffs, Len(payoffs) \div 2 + 1,
                                          Len(payoffs)))), 2))

\* (A variant of option_price: each payoff discounted before the mean.)
option_price_per_path(p, payoffs) ==
    np_mean([i \in DOMAIN payoffs |->
                FMul(FExp(FMul(FNeg(p.rf), p.T)), payoffs[i])])

\* np.exp(-rf * T) * np.mean(payoffs).
option_price(p, payoffs) ==
    FMul(FExp(FMul(FNeg(p.rf), p.T)), np_mean(payoffs))

\* rand of the standard simulations: iterations draws.
standard_rand(p, st, ps) == Normal(st, ps, p.iterations)

\* (A variant of combined_rand: the second half drawn, not negated.)
combined_rand_unpaired(p, st, ps) == Normal(st, ps, 2 * (p.iterations \div 2))

\* (A variant of combined_rand: iterations / 2 rounded up.)
combined_rand_ceil(p, st, ps) ==
    LET rand == Normal(st, ps, (p.iterations + 1) \div 2)
        rand_antithetic == [i \in DOMAIN rand |-> FNeg(rand[i])]
    IN  rand \o rand_antithetic

\* combined_rand of the antithetic simulations: iterations // 2 draws
\* followed by their negations.
combined_rand(p, st, ps) ==
    LET rand == Normal(st, ps, p.iterations \div 2)
        rand_antithetic == [i \in DOMAIN rand |-> FNeg(rand[i])]
    IN  rand \o rand_antithetic

\* The body shared by the four simulations, from the draws on.
Simulate(op, p, rand, ndraws) ==
    LET stock_price == CHOOSE f \in {gbm(p, rand)} : TRUE
        payoffs == [i \in DOMAIN stock_price |->
                       IF op \in {"call", "acall"}
                       THEN call_payoff(stock_price[i], p.E)
                       ELSE put_payoff(stock_price[i], p.E)]
    IN  [op |-> op, rand |-> rand, ndraws |-> ndraws,
         stock_price |-> stock_price, payoffs |-> payoffs,
         option_price |-> option_price(p, payoffs)]

CallSim(p, st, ps) == Simulate("call", p, standard_rand(p, st, ps), p.iterations)

PutSim(p, st, ps) == Simulate("put", p, standard_rand(p, st, ps), p.iterations)

AntitheticCallSim(p, st, ps) ==
    Simulate("acall", p, combined_rand(p, st, ps), p.iterations \div 2)

AntitheticPutSim(p, st, ps) ==
    Simulate("aput", p, combined_rand(p, st, ps), p.iterations \div 2)

NoBatch ==
    [op |-> "none", pos0 |-> 1, rand |-> <<>>, ndraws |-> 0,
     stock_price |-> <<>>, payoffs |-> <<>>, option_price |-> 0,
     return_paths |-> FALSE, ret |-> [price |-> 0, paths |-> <<>>]]

\* (A variant of Priced: the draws come from a copy of the generator, whose
\* own state stays as it was.)
Priced_from_copy(sim, kind, return_paths) ==
    /\ nops' = nops + 1
    /\ last' = sim.op
    /\ pos' = pos
    /\ consumed' = consumed
    /\ batch' = [op |-> sim.op, pos0 |-> pos, rand |-> sim.rand,
                 ndraws |-> sim.ndraws, stock_price |-> sim.stock_price, payoffs |-> sim.payoffs,
                 option_price |-> sim.option_price,
                 return_paths |-> return_paths,
                 ret |-> [price |-> sim.option_price,
                          paths |-> IF return_paths
                                    THEN <<sim.stock_price, sim.payoffs>>
                                    ELSE <<>>]]
    /\ est' = [kind |-> kind, value |-> sim.option_price]
    /\ UNCHANGED <<pricer, stream, bs, ci>>

\* A pricing call ends: the generator has advanced by the draws taken, the
\* caller holds the value returned.  batch keeps the call's locals, and pos0,
\* the generator's state when the call began.
Priced(sim, kind, return_paths) ==
    /\ nops' = nops + 1
    /\ last' = sim.op
    /\ pos' = Advance(pos, sim.ndraws)
    /\ consumed' = consumed + sim.ndraws
    /\ batch' = [op |-> sim.op, pos0 |-> pos, rand |-> sim.rand,
                 ndraws |-> sim.ndraws, stock_price |-> sim.stock_price, payoffs |-> sim.payoffs,
                 option_price |-> sim.option_price,
                 return_paths |-> return_paths,
                 ret |-> [price |-> sim.option_price,
                          paths |-> IF return_paths
                                    THEN <<sim.stock_price, sim.payoffs>>
                                    ELSE <<>>]]
    /\ est' = [kind |-> kind, value |-> sim.option_price]
    /\ UNCHANGED <<pricer, stream, bs, ci>>

call_option_simulation ==
    /\ LibraryCall
    /\ \E return_paths \in BOOLEAN :
           \E sim \in {CallSim(pricer, stream, pos)} :
               Priced(sim, "call", return_paths)

put_option_simulation ==
    /\ LibraryCall
    /\ \E return_paths \in BOOLEAN :
           \E sim \in {PutSim(pricer, stream, pos)} :
               Priced(sim, "put", return_paths)

antithetic_call_simulation ==
    /\ LibraryCall
    /\ \E sim \in {AntitheticCallSim(pricer, stream, pos)} :
           Priced(sim, "call", FALSE)

antithetic_put_simulation ==
    /\ LibraryCall
    /\ \E sim \in {AntitheticPutSim(pricer, stream, pos)} :
           Priced(sim, "put", FALSE)

\* (A variant of bs_d1: sigma**2 without its factor 0.5.)
bs_d1_no_half(p) ==
    FDiv(FAdd(FLn(FDiv(p.S0, p.E)),
              FMul(FAdd(p.rf, FMul(p.sigma, p.sigma)), p.T)),
         FMul(p.sigma, FSqrt(p.T)))

\* d1 of bs_analytical_price.
bs_d1(p) ==
    FDiv(FAdd(FLn(FDiv(p.S0, p.E)),
              FMul(FAdd(p.rf, FMul(Half, FMul(p.sigma, p.sigma))), p.T)),
         FMul(p.sigma, FSqrt(p.T)))

\* d2 of bs_analytical_price.
bs_d2(p, d1) == FSub(d1, FMul(p.sigma, FSqrt(p.T)))

\* call_price of bs_analytical_price.
bs_call(p, d1, d2) ==
    FSub(FMul(p.S0, norm_cdf(d1)),
         FMul(FMul(p.E, FExp(FMul(FNeg(p.rf), p.T))), norm_cdf(d2)))

\* (A variant of bs_put: the CDF at d2 and d1, not at -d2 and -d1.)
bs_put_unsigned(p, d1, d2) ==
    FSub(FMul(FMul(p.E, FExp(FMul(FNeg(p.rf), p.T))), norm_cdf(d2)),
         FMul(p.S0, norm_cdf(d1)))

\* put_price of bs_analytical_price.
bs_put(p, d1, d2) ==
    FSub(FMul(FMul(p.E, FExp(FMul(FNeg(p.rf), p.T))), norm_cdf(FNeg(d2))),
         FMul(p.S0, norm_cdf(FNeg(d1))))

\* The body of bs_analytical_price.
BsPrice(p) ==
    LET d1 == CHOOSE d \in {bs_d1(p)} : TRUE
        d2 == CHOOSE d \in {bs_d2(p, d1)} : TRUE
    IN  [d1 |-> d1, d2 |-> d2, call_price |-> bs_call(p, d1, d2),
         put_price |-> bs_put(p, d1, d2)]

\* (A variant of bs_analytical_price that reseeds the generator.)
bs_analytical_price_reseeding ==
    /\ LibraryCall
    /\ nops' = nops + 1
    /\ last' = "bs"
    /\ \E r \in {BsPrice(pricer)} :
           bs' = [done |-> TRUE, d1 |-> r.d1, d2 |-> r.d2,
                  ret |-> <<r.call_price, r.put_price>>]
    /\ stream' \in [1..Period -> ZDom]
    /\ UNCHANGED <<pricer, pos, consumed, batch, est, ci>>

bs_analytical_price ==
    /\ LibraryCall
    /\ nops' = nops + 1
    /\ last' = "bs"
    /\ \E r \in {BsPrice(pricer)} :
           bs' = [done |-> TRUE, d1 |-> r.d1, d2 |-> r.d2,
                  ret |-> <<r.call_price, r.put_price>>]
    /\ UNCHANGED <<pricer, stream, pos, consumed, batch, est, ci>>

\* subsample_size of confidence_intervals.
subsample_size(p) == p.iterations \div n_samples

\* temp_pricer of confidence_intervals.
temp_pricer(p) ==
    OptionPricing(p.S0, p.E, p.T, p.rf, p.sigma, subsample_size(p))

\* (A variant of sub_run: the put simulation.)
sub_run_put(tp, st, ps) == PutSim(tp, st, ps)

\* temp_pricer.call_option_simulation(), from generator state ps.
sub_run(tp, st, ps) == CallSim(tp, st, ps)

\* (A variant of std_err: the population standard deviation, ddof = 0.)
std_err_population(prices) == FDiv(np_std(prices, 0), FSqrt(Fx(n_samples)))

\* std_err of confidence_intervals.
std_err(prices) == FDiv(np_std(prices, 1), FSqrt(Fx(n_samples)))

\* z of confidence_intervals.
z_score(confidence) == norm_ppf(FDiv(FAdd(One, confidence), Fx(2)))

\* The value confidence_intervals returns.
interval(price, z, se) == <<FSub(price, FMul(z, se)), FAdd(price, FMul(z, se))>>

\* The body of confidence_intervals: the sub-runs draw one after the other
\* from the global generator.
ConfidenceIntervals(p, st, ps, price, confidence) ==
    \* (CHOOSE over a singleton: each local is computed once.)
    LET tp == CHOOSE t \in {temp_pricer(p)} : TRUE
        runs == CHOOSE f \in {[k \in 1..n_samples |->
                    sub_run(tp, st, Advance(ps, (k - 1) * tp.iterations))]} : TRUE
        prices == CHOOSE f \in {[k \in 1..n_samples |-> runs[k].option_price]} : TRUE
        se == std_err(prices)
        z == z_score(confidence)
    IN  [pricers |-> [k \in 1..n_samples |-> tp],
         rands |-> [k \in 1..n_samples |-> runs[k].rand],
         ops |-> [k \in 1..n_samples |-> runs[k].op],
         ndraws |-> FSum([k \in 1..n_samples |-> runs[k].ndraws]),
         prices |-> prices, std_err |-> se, z |-> z,
         ret |-> interval(price, z, se)]

\* (A variant of confidence_intervals that runs its sub-runs on the caller's
\* pricer, its iteration count set to subsample_size.)
confidence_intervals_in_place ==
    /\ LibraryCall
    /\ est.kind # "none"
    /\ \E confidence \in ConfDom :
        \E r \in {ConfidenceIntervals(pricer, stream, pos, est.value, confidence)} :
            /\ ci' = [done |-> TRUE, price |-> est.value, kind |-> est.kind,
                      confidence |-> confidence, pos0 |-> pos,
                      pricers |-> r.pricers, rands |-> r.rands, ops |-> r.ops,
                      prices |-> r.prices, std_err |-> r.std_err, z |-> r.z,
                      ndraws |-> r.ndraws, ret |-> r.ret]
            /\ pos' = Advance(pos, r.ndraws)
            /\ consumed' = consumed + r.ndraws
    /\ pricer' = temp_pricer(pricer)
    /\ nops' = nops + 1
    /\ last' = "ci"
    /\ UNCHANGED <<stream, batch, est, bs>>

confidence_intervals ==
    /\ LibraryCall
    /\ est.kind # "none"
    /\ \E confidence \in ConfDom :
        \E r \in {ConfidenceIntervals(pricer, stream, pos, est.value, confidence)} :
            /\ ci' = [done |-> TRUE, price |-> est.value, kind |-> est.kind,
                      confidence |-> confidence, pos0 |-> pos,
                      pricers |-> r.pricers, rands |-> r.rands, ops |-> r.ops,
                      prices |-> r.prices, std_err |-> r.std_err, z |-> r.z,
                      ndraws |-> r.ndraws, ret |-> r.ret]
            /\ pos' = Advance(pos, r.ndraws)
            /\ consumed' = consumed + r.ndraws
    /\ nops' = nops + 1
    /\ last' = "ci"
    /\ UNCHANGED <<pricer, stream, batch, est, bs>>

\* ------------------------------------------------------------------------
\* utils.py: save_results, load_results
\* ------------------------------------------------------------------------

\* Python values.
PyNone == [t |-> "None"]

PyBool(b) == [t |-> "bool", v |-> b]

PyInt(n) == [t |-> "int", v |-> n]

\* A float, by its fixed-point value (NaN, PosInf, NegInf included).
PyFloat(x) == [t |-> "float", v |-> x]

PyStr(str) == [t |-> "str", v |-> str]

PyList(items) == [t |-> "list", v |-> items]

PyTuple(items) == [t |-> "tuple", v |-> items]

\* A dict: its items <<key, value>> in insertion order, the keys distinct.
PyDict(items) == [t |-> "dict", v |-> items]

\* d[key] = value on the items of a dict: a key already there keeps its
\* place and takes the new value.
SetItem(items, key, value) ==
    IF \E i \in DOMAIN items : items[i][1] = key
    THEN [i \in DOMAIN items |->
             IF items[i][1] = key THEN <<key, value>> ELSE items[i]]
    ELSE Append(items, <<key, value>>)

\* The key json.dump writes for a dict key: a str as it is, an int in
\* decimal, True, False and None as true, false and null.
json_key(key) ==
    CASE key.t = "str" -> key.v
      [] key.t = "int" -> ToString(key.v)
      [] key.t = "bool" -> IF key.v THEN "true" ELSE "false"
      [] key.t = "None" -> "null"

\* json.dump: the JSON text, by the document it spells.  A tuple is written
\* as an array, like a list; nan and the infinities as the tokens NaN,
\* Infinity and -Infinity (allow_nan); a dict as an object, its keys as
\* json_key gives them.
RECURSIVE json_dump(_)
json_dump(value) ==
    CASE value.t = "None" -> [j |-> "null"]
      [] value.t = "bool" -> [j |-> IF value.v THEN "true" ELSE "false"]
      [] value.t = "int" -> [j |-> "integer", v |-> value.v]
      [] value.t = "float" ->
            IF value.v = NaN THEN [j |-> "NaN"]
            ELSE IF value.v = PosInf THEN [j |-> "Infinity"]
            ELSE IF value.v = NegInf THEN [j |-> "-Infinity"]
            ELSE [j |-> "real", v |-> value.v]
      [] value.t = "str" -> [j |-> "string", v |-> value.v]
      [] value.t \in {"list", "tuple"} ->
            [j |-> "array", v |-> [i \in DOMAIN value.v |-> json_dump(value.v[i])]]
      [] value.t = "dict" ->
            [j |-> "object",
             v |-> [i \in DOMAIN value.v |->
                       <<json_key(value.v[i][1]), json_dump(value.v[i][2])>>]]

\* The dict of an object's members: a name that occurs again replaces the
\* value it had.
RECURSIVE object_items(_, _)
object_items(members, items) ==
    IF members = <<>> THEN items
    ELSE object_items(Tail(members),
                      SetItem(items, PyStr(Head(members)[1]), Head(members)[2]))

\* json.load: the value of a JSON document.  An array is a list, an object a
\* dict with str keys, NaN a float nan.
RECURSIVE json_load(_)
json_load(doc) ==
    CASE doc.j = "null" -> PyNone
      [] doc.j = "true" -> PyBool(TRUE)
      [] doc.j = "false" -> PyBool(FALSE)
      [] doc.j = "integer" -> PyInt(doc.v)
      [] doc.j = "real" -> PyFloat(doc.v)
      [] doc.j = "NaN" -> PyFloat(NaN)
      [] doc.j = "Infinity" -> PyFloat(PosInf)
      [] doc.j = "-Infinity" -> PyFloat(NegInf)
      [] doc.j = "string" -> PyStr(doc.v)
      [] doc.j = "array" ->
            PyList([i \in DOMAIN doc.v |-> json_load(doc.v[i])])
      [] doc.j = "object" ->
            PyDict(object_items([i \in DOMAIN doc.v |->
                                    <<doc.v[i][1], json_load(doc.v[i][2])>>],
                                <<>>))

\* os.path.join(directory, filename).
path_join(directory, filename) == <<directory, filename>>

\* os.makedirs(directory, exist_ok=True).
makedirs(f, directory) == [f EXCEPT !.dirs = @ \cup {directory}]

\* open(path, 'w'), write, close: the file is created or replaced.
write_file(f, path, content) ==
    [f EXCEPT !.files = [q \in DOMAIN f.files \cup {path} |->
                            IF q = path THEN content ELSE f.files[q]]]

\* os.path.exists for a file.
exists(f, path) == path \in DOMAIN f.files

\* (A variant of save_results_fs that does not create the directory.)
save_results_fs_no_makedirs(f, results, filename, directory) ==
    write_file(f, path_join(directory, filename), json_dump(results))

\* The file system after save_results(results, filename, directory).
save_results_fs(f, results, filename, directory) ==
    write_file(makedirs(f, directory), path_join(directory, filename),
               json_dump(results))

\* The value load_results(filename, directory) returns from a file that
\* exists.
load_results_value(f, filename, directory) ==
    json_load(f.files[path_join(directory, filename)])

\* The dictionaries saved: the shape price_options writes, an empty dict,
\* scalars of every kind, an int key, a tuple, a nan.
ResultsDom ==
    {PyDict(<< <<PyStr("parameters"),
                 PyDict(<< <<PyStr("iterations"), PyInt(10000)>>,
                           <<PyStr("method"), PyStr("Standard Monte Carlo")>> >>)>>,
               <<PyStr("results"),
                 PyDict(<< <<PyStr("call_price"), PyFloat(Pct(1050))>>,
                           <<PyStr("put_price"), PyFloat(Pct(560))>> >>)>> >>),
     PyDict(<<>>),
     PyDict(<< <<PyStr("a"), PyNone>>, <<PyStr("b"), PyBool(TRUE)>>,
               <<PyStr("c"), PyList(<<PyInt(1), PyFloat(Pct(250))>>)>>,
               <<PyStr("d"), PyFloat(PosInf)>> >>),
     PyDict(<< <<PyInt(1), PyStr("x")>> >>),
     PyDict(<< <<PyStr("pair"), PyTuple(<<PyInt(1), PyInt(2)>>)>> >>),
     PyDict(<< <<PyStr("call_price"), PyFloat(NaN)>> >>)}

FileNames == {"results.json"}

\* The default directory and another, which may not exist yet.
DirNames == {".", "out"}

NoIo ==
    [n |-> 0, op |-> "none", results |-> PyNone, filename |-> "",
     directory |-> "", ret |-> PyNone, raised |-> "none", saved |-> <<>>]

\* The dictionary save_results last wrote at each path.
Saved(saved, path, results) ==
    [q \in DOMAIN saved \cup {path} |-> IF q = path THEN results ELSE saved[q]]

save_results ==
    /\ entry = "utils"
    /\ io.n < MaxOps
    /\ \E results \in ResultsDom, filename \in FileNames, directory \in DirNames :
        /\ fs' = save_results_fs(fs, results, filename, directory)
        /\ io' = [n |-> io.n + 1, op |-> "save", results |-> results,
                  filename |-> filename, directory |-> directory,
                  ret |-> PyNone, raised |-> "none",
                  saved |-> Saved(io.saved, path_join(directory, filename), results)]
    /\ UNCHANGED <<pricer, stream, pos, consumed, nops, last, batch, est, bs, ci,
                   entry, cli, visualizer>>

\* open(path, 'r') raises FileNotFoundError when there is no such file.
load_results ==
    /\ entry = "utils"
    /\ io.n < MaxOps
    /\ \E filename \in FileNames, directory \in DirNames :
        io' = [io EXCEPT
                  !.n = @ + 1, !.op = "load", !.results = PyNone,
                  !.filename = filename, !.directory = directory,
                  !.ret = IF exists(fs, path_join(directory, filename))
                          THEN load_results_value(fs, filename, directory)
                          ELSE PyNone,
                  !.raised = IF exists(fs, path_join(directory, filename))
                             THEN "none" ELSE "FileNotFoundError"]
    /\ UNCHANGED <<pricer, stream, pos, consumed, nops, last, batch, est, bs, ci,
                   entry, fs, cli, visualizer>>

\* The file system a process starts with: the current directory, with or
\* without the output directory, with or without a file of an earlier run.
NoFs == [dirs |-> {"."}, files |-> <<>>]

FsDom ==
    {NoFs,
     [dirs |-> {".", "out"}, files |-> <<>>],
     [dirs |-> {".", "out"},
      files |-> [q \in {path_join("out", "results.json")} |->
                    json_dump(PyDict(<< <<PyStr("old"), PyInt(1)>> >>))]]}

\* The pricer of a process that constructs none itself.
NoPricer == OptionPricing(Fx(100), Fx(100), Fx(1), Pct(5), Pct(20), 1)

\* ------------------------------------------------------------------------
\* cli.py: price_options
\* ------------------------------------------------------------------------

\* 10**k for an integer k >= 0.
RECURSIVE Pow10(_)
Pow10(k) == IF k = 0 THEN 1 ELSE 10 * Pow10(k - 1)

\* log(10).
Ln10 == (23026 * Scale) \div 10000

\* The greatest k with 10**k <= x, for x >= 1.
Decade(x) == CHOOSE k \in 0..5 : Fx(Pow10(k)) <= x /\ (k = 5 \/ x < Fx(Pow10(k + 1)))

\* np.log10: exact at the powers of ten.
np_log10(x) ==
    IF x = NaN \/ x = NegInf \/ (IsFinite(x) /\ x < 0) THEN NaN
    ELSE IF x = PosInf THEN PosInf
    ELSE IF x = 0 THEN NegInf
    ELSE IF x < One THEN FDiv(FLn(x), Ln10)
    ELSE FAdd(Fx(Decade(x)), FDiv(FLn(FDiv(x, Fx(Pow10(Decade(x))))), Ln10))

\* np.power(10, y): exact at the integers from 0 on.
np_power10(y) ==
    IF IsFinite(y) /\ y >= 0 /\ y % Scale = 0 /\ y \div Scale <= 5
    THEN Fx(Pow10(y \div Scale))
    ELSE FExp(FMul(y, Ln10))

\* np.linspace(start, stop, num): start + i * step, the last point stop
\* itself.
np_linspace(start, stop, num) ==
    LET step == FDiv(FSub(stop, start), Fx(num - 1))
    IN  [i \in 1..num |->
            IF i = num THEN stop ELSE FAdd(start, FMul(Fx(i - 1), step))]

\* astype(int): the fraction is dropped.
astype_int(x) == IF x >= 0 THEN x \div Scale ELSE -((-x) \div Scale)

\* np.logspace(start, stop, num).astype(int).
np_logspace_int(start, stop, num) ==
    LET y == np_linspace(start, stop, num)
    IN  [i \in 1..num |-> astype_int(np_power10(y[i]))]

\* min of two floats, as Python's min gives it for finite values.
FMin(a, b) == IF a = NaN \/ b = NaN THEN NaN ELSE IF a <= b THEN a ELSE b

\* abs of a float.
FAbs(x) == IF IsFinite(x) THEN Abs(x) ELSE IF x = NaN THEN NaN ELSE PosInf

\* (A variant of calculate_performance_metrics: the difference with its sign.)
calculate_performance_metrics_signed(mc_price, analytical_price, computation_time) ==
    [absolute_error |-> FSub(mc_price, analytical_price),
     relative_error |-> FDiv(FSub(mc_price, analytical_price), analytical_price),
     computation_time |-> computation_time]

\* calculate_performance_metrics.
calculate_performance_metrics(mc_price, analytical_price, computation_time) ==
    [absolute_error |-> FAbs(FSub(mc_price, analytical_price)),
     relative_error |-> FDiv(FAbs(FSub(mc_price, analytical_price)),
                             analytical_price),
     computation_time |-> computation_time]

\* np.random.normal raises ValueError for a negative size.
normal_raises(p, method) ==
    IF method = "standard" THEN p.iterations < 0
    ELSE p.iterations \div 2 < 0

\* self.S0 / self.E of bs_analytical_price, on the floats the parser gives,
\* raises ZeroDivisionError for a strike of 0.
analytical_raises(p) == p.E = 0

\* The iteration count of the pricer whose paths the antithetic method plots.
vis_iterations == 10000

\* A simulation called for its paths alone: the terminal prices and the
\* payoffs of the next p.iterations draws.
simulation_paths(op, p, st, ps) ==
    LET stock_price == CHOOSE f \in {gbm(p, standard_rand(p, st, ps))} : TRUE
    IN  [stock_price |-> stock_price,
         payoffs |-> [i \in DOMAIN stock_price |->
                         IF op = "call" THEN call_payoff(stock_price[i], p.E)
                         ELSE put_payoff(stock_price[i], p.E)],
         ndraws |-> p.iterations]

\* The call and the put price of the selected method, one after the other,
\* from generator state ps.  (A value used more than once is bound by
\* {... : v \in {value}}, so that it is computed once.)
method_prices(method, p, st, ps) ==
    CHOOSE r \in UNION {
        {[call |-> call, put |-> put, ndraws |-> call.ndraws + put.ndraws] :
            put \in {IF method = "standard"
                     THEN PutSim(p, st, Advance(ps, call.ndraws))
                     ELSE AntitheticPutSim(p, st, Advance(ps, call.ndraws))}} :
        call \in {IF method = "standard" THEN CallSim(p, st, ps)
                  ELSE AntitheticCallSim(p, st, ps)}} : TRUE

\* The pricer price_options constructs from the arguments, with the given
\* volatility and iteration count.
args_pricer(args, sigma, iterations) ==
    OptionPricing(args.s0, args.strike, args.time, args.rate, sigma, iterations)

\* Lines 36-54: the prices of the main step and the paths kept for the
\* distribution plots.  The antithetic method takes the paths from a second
\* pricer of vis_iterations, the stock prices from its call simulation and the
\* put payoffs from its put simulation.
main_step(args, st, ps) ==
    CHOOSE r \in UNION { UNION {
        {[call_price |-> mp.call.option_price,
          put_price |-> mp.put.option_price,
          stock_prices |-> call_paths.stock_price,
          call_payoffs |-> call_paths.payoffs,
          put_payoffs |-> put_paths.payoffs,
          put_stock_prices |-> put_paths.stock_price,
          method_name |-> IF args.method = "standard"
                          THEN "Standard Monte Carlo"
                          ELSE "Antithetic Variates Monte Carlo",
          first_draws |-> SubSeq(mp.call.rand, 1, mp.call.ndraws),
          ndraws |-> mp.ndraws + call_paths.ndraws + put_paths.ndraws] :
            put_paths \in
                {IF args.method = "standard"
                 THEN [stock_price |-> mp.put.stock_price,
                       payoffs |-> mp.put.payoffs, ndraws |-> 0]
                 ELSE simulation_paths(
                          "put", args_pricer(args, args.volatility, vis_iterations),
                          st, Advance(ps, mp.ndraws + call_paths.ndraws))}} :
            call_paths \in
                {IF args.method = "standard"
                 THEN [stock_price |-> mp.call.stock_price,
                       payoffs |-> mp.call.payoffs, ndraws |-> 0]
                 ELSE simulation_paths(
                          "call", args_pricer(args, args.volatility, vis_iterations),
                          st, Advance(ps, mp.ndraws))}} :
            mp \in {method_prices(
                        args.method,
                        args_pricer(args, args.volatility, args.iterations),
                        st, ps)}} : TRUE

\* The confidence interval of a price, as the loop asks for it (confidence
\* 0.95 by default), from generator state ps.
pass_interval(tp, st, ps, price) ==
    CHOOSE r \in {[ret |-> c.ret, ndraws |-> c.ndraws] :
                     c \in {ConfidenceIntervals(tp, st, ps, price, Pct(95))}} : TRUE

\* One pass of the convergence loop (lines 81-105) for the count n, from
\* generator state ps.
convergence_pass(args, n, st, ps) ==
    CHOOSE r \in UNION { UNION {
        {[call_price |-> mp.call.option_price,
          put_price |-> mp.put.option_price,
          call_ci |-> call_ci.ret, put_ci |-> put_ci.ret,
          ndraws |-> mp.ndraws + call_ci.ndraws + put_ci.ndraws] :
            put_ci \in {pass_interval(
                            args_pricer(args, args.volatility, n), st,
                            Advance(ps, mp.ndraws + call_ci.ndraws),
                            mp.put.option_price)}} :
            call_ci \in {pass_interval(
                             args_pricer(args, args.volatility, n), st,
                             Advance(ps, mp.ndraws), mp.call.option_price)}} :
            mp \in {method_prices(args.method,
                                  args_pricer(args, args.volatility, n),
                                  st, ps)}} : TRUE

\* The convergence loop from its k-th pass on.
RECURSIVE convergence_loop(_, _, _, _, _, _)
convergence_loop(args, iter_list, k, st, ps, done) ==
    IF k > Len(iter_list) THEN done
    ELSE CHOOSE r \in UNION {
             {convergence_loop(args, iter_list, k + 1, st, ps_next, Append(done, pass)) :
                 ps_next \in {Advance(ps, pass.ndraws)}} :
             pass \in {convergence_pass(args, iter_list[k], st, ps)}} : TRUE

\* One pass of the volatility loop (lines 143-163).
volatility_pass(args, vol, st, ps) ==
    CHOOSE r \in
        {[call_price |-> mp.call.option_price,
          put_price |-> mp.put.option_price,
          bs_call |-> an.call_price, bs_put |-> an.put_price,
          ndraws |-> mp.ndraws] :
            mp \in {method_prices(args.method,
                                  args_pricer(args, vol, args.iterations \div 10),
                                  st, ps)},
            an \in {BsPrice(args_pricer(args, vol, args.iterations \div 10))}} : TRUE

\* The volatility loop from its k-th pass on.
RECURSIVE volatility_loop(_, _, _, _, _, _)
volatility_loop(args, vol_range, k, st, ps, done) ==
    IF k > Len(vol_range) THEN done
    ELSE CHOOSE r \in UNION {
             {volatility_loop(args, vol_range, k + 1, st, ps_next, Append(done, pass)) :
                 ps_next \in {Advance(ps, pass.ndraws)}} :
             pass \in {volatility_pass(args, vol_range[k], st, ps)}} : TRUE

\* The draws of a sequence of passes.
RECURSIVE passes_ndraws(_)
passes_ndraws(passes) ==
    IF passes = <<>> THEN 0 ELSE Head(passes).ndraws + passes_ndraws(Tail(passes))

\* vol_range of price_options.
vol_range_of(args) ==
    np_linspace(FMax(Pct(5), FDiv(args.volatility, Fx(2))),
                FMin(Pct(80), FMul(args.volatility, Fx(2))), 10)

\* Everything price_options computes between the construction of the pricer
\* and the first plot, and in the volatility loop: a run without an exception.
cli_run(args, st, ps) ==
    CHOOSE r \in UNION { UNION {
        {[main |-> main, bs_call |-> an.call_price, bs_put |-> an.put_price,
          iter_list |-> iter_list, conv |-> conv,
          vol_range |-> vol_range, vols |-> vols,
          ndraws |-> main.ndraws + passes_ndraws(conv) + passes_ndraws(vols)] :
            vols \in {volatility_loop(
                          args, vol_range, 1, st,
                          Advance(ps, main.ndraws + passes_ndraws(conv)), <<>>)}} :
            conv \in {convergence_loop(args, iter_list, 1, st,
                                       Advance(ps, main.ndraws), <<>>)}} :
            main \in {main_step(args, st, ps)},
            an \in {BsPrice(args_pricer(args, args.volatility, args.iterations))},
            iter_list \in {np_logspace_int(Fx(2), np_log10(Fx(args.iterations)), 10)},
            vol_range \in {vol_range_of(args)}} : TRUE

\* ------------------------------------------------------------------------
\* visualization.py: the files a plot call leaves
\* ------------------------------------------------------------------------

\* (A variant of plot_files: the data of every plot in the one file
\* <filename>.csv.)
plot_files_one_csv(op, filename) ==
    <<filename \o ".png", filename \o ".pdf", filename \o ".csv">>

\* The files of a plot call with a filename, in the order they are written:
\* the figure as png and as pdf, then the data.
plot_files(op, filename) ==
    IF op = "plot_price_distribution"
    THEN <<filename \o ".png", filename \o ".pdf",
           filename \o "_prices.csv", filename \o "_payoffs.csv">>
    ELSE <<filename \o ".png", filename \o ".pdf", filename \o ".csv">>

\* What is in the k-th file of a plot call: a figure, or a table by its
\* columns and rows.
plot_content(call, k) ==
    IF k = 1 THEN [j |-> "png"]
    ELSE IF k = 2 THEN [j |-> "pdf"]
    ELSE [j |-> "csv", rows |-> call.rows,
          columns |->
              IF call.op = "plot_convergence"
              THEN <<"iterations", "prices", "ci_lower", "ci_upper", "analytical">>
              ELSE IF call.op = "plot_parameter_sensitivity"
              THEN <<call.parameter_name, "mc_prices", "analytical_prices">>
              ELSE IF k = 3 THEN <<"stock_prices">> ELSE <<"payoffs">>]

\* The file system after the first `written` files of a plot call.
RECURSIVE plot_fs(_, _, _, _, _)
plot_fs(f, output_dir, call, k, written) ==
    IF k > written \/ k > Len(plot_files(call.op, call.filename)) THEN f
    ELSE plot_fs(write_file(f, path_join(output_dir,
                                         plot_files(call.op, call.filename)[k]),
                            plot_content(call, k)),
                 output_dir, call, k + 1, written)

\* OptionVisualizer.__init__ keeps output_dir (and creates the directory).
OptionVisualizer(output_dir) == [constructed |-> TRUE, output_dir |-> output_dir]

\* No visualizer constructed.
NoVisualizer == [constructed |-> FALSE]

\* What a plot operation returns.
Figure == [t |-> "Figure"]

\* `if filename:` of the plot operations: None and '' are no filename.
given(filename) == filename # PyNone /\ filename # PyStr("")

\* The file system after a plot operation that raises nothing: its files
\* when a filename is given, else nothing.
plot_saved(f, output_dir, call) ==
    IF given(call.filename)
    THEN plot_fs(f, output_dir, [call EXCEPT !.filename = @.v], 1, 4)
    ELSE f

\* The file system after the plot calls from the k-th on; the call number
\* fault.plot raises after fault.written of its files, and none follows it.
RECURSIVE plots_fs(_, _, _, _, _)
plots_fs(f, output_dir, calls, k, fault) ==
    IF k > Len(calls) THEN f
    ELSE IF k = fault.plot
    THEN plot_fs(f, output_dir, calls[k], 1, fault.written)
    ELSE plots_fs(plot_fs(f, output_dir, calls[k], 1, 4),
                  output_dir, calls, k + 1, fault)

\* ------------------------------------------------------------------------
\* cli.py: price_options, continued
\* ------------------------------------------------------------------------

\* The six plot calls of price_options, in order, with what they are given.
plot_calls(run) ==
    << [op |-> "plot_convergence", filename |-> "call_convergence",
        rows |-> Len(run.iter_list), iterations |-> run.iter_list,
        prices |-> [k \in DOMAIN run.conv |-> run.conv[k].call_price],
        ci_lower |-> [k \in DOMAIN run.conv |-> run.conv[k].call_ci[1]],
        ci_upper |-> [k \in DOMAIN run.conv |-> run.conv[k].call_ci[2]],
        analytical |-> run.bs_call],
       [op |-> "plot_convergence", filename |-> "put_convergence",
        rows |-> Len(run.iter_list), iterations |-> run.iter_list,
        prices |-> [k \in DOMAIN run.conv |-> run.conv[k].put_price],
        ci_lower |-> [k \in DOMAIN run.conv |-> run.conv[k].put_ci[1]],
        ci_upper |-> [k \in DOMAIN run.conv |-> run.conv[k].put_ci[2]],
        analytical |-> run.bs_put],
       [op |-> "plot_price_distribution", filename |-> "call_distributions",
        rows |-> Len(run.main.stock_prices),
        stock_prices |-> run.main.stock_prices,
        payoffs |-> run.main.call_payoffs],
       [op |-> "plot_price_distribution", filename |-> "put_distributions",
        rows |-> Len(run.main.stock_prices),
        stock_prices |-> run.main.stock_prices,
        payoffs |-> run.main.put_payoffs],
       [op |-> "plot_parameter_sensitivity",
        filename |-> "call_volatility_sensitivity",
        rows |-> Len(run.vol_range), parameter_values |-> run.vol_range,
        parameter_name |-> "Volatility",
        prices |-> [k \in DOMAIN run.vols |-> run.vols[k].call_price],
        analytical_prices |-> [k \in DOMAIN run.vols |-> run.vols[k].bs_call]],
       [op |-> "plot_parameter_sensitivity",
        filename |-> "put_volatility_sensitivity",
        rows |-> Len(run.vol_range), parameter_values |-> run.vol_range,
        parameter_name |-> "Volatility",
        prices |-> [k \in DOMAIN run.vols |-> run.vols[k].put_price],
        analytical_prices |-> [k \in DOMAIN run.vols |-> run.vols[k].bs_put]] >>

\* No plot call raises.
NoFault == [plot |-> 0, written |-> 0]

\* The plot call that raises, and how many of its files it has written by
\* then.
FaultDom == {NoFault} \cup [plot : 1..6, written : {0, 2}]

\* The volatility loop runs after the fourth plot call: an exception in one
\* of the first four leaves it out.
reaches_volatility_loop(fault) == fault.plot = 0 \/ fault.plot > 4

\* call_price, put_price, bs_call and bs_put as the names stand when the
\* results are put together: the loops assign to the same names.
reported(run, fault) ==
    IF reaches_volatility_loop(fault)
    THEN [call_price |-> run.vols[Len(run.vols)].call_price,
          put_price |-> run.vols[Len(run.vols)].put_price,
          bs_call |-> run.vols[Len(run.vols)].bs_call,
          bs_put |-> run.vols[Len(run.vols)].bs_put]
    ELSE [call_price |-> run.conv[Len(run.conv)].call_price,
          put_price |-> run.conv[Len(run.conv)].put_price,
          bs_call |-> run.bs_call,
          bs_put |-> run.bs_put]

\* The draws of the run up to the exception, or of the whole run.
run_ndraws(run, fault) ==
    IF reaches_volatility_loop(fault) THEN run.ndraws
    ELSE run.main.ndraws + passes_ndraws(run.conv)

\* (A variant of results_dict that records the --method argument, not the
\* method's name.)
results_dict_method_argument(args, method_name, now, call_metrics, put_metrics, computation_time) ==
    PyDict(<< <<PyStr("parameters"),
                PyDict(<< <<PyStr("iterations"), PyInt(args.iterations)>>,
                          <<PyStr("method"), PyStr(args.method)>> >>)>>,
              <<PyStr("results"),
                PyDict(<< <<PyStr("call_price"), PyFloat(now.call_price)>>,
                          <<PyStr("put_price"), PyFloat(now.put_price)>> >>)>> >>)

\* The results dictionary (lines 184-205).
results_dict(args, method_name, now, call_metrics, put_metrics, computation_time) ==
    PyDict(<< <<PyStr("parameters"),
                PyDict(<< <<PyStr("initial_price"), PyFloat(args.s0)>>,
                          <<PyStr("strike_price"), PyFloat(args.strike)>>,
                          <<PyStr("time_to_maturity"), PyFloat(args.time)>>,
                          <<PyStr("risk_free_rate"), PyFloat(args.rate)>>,
                          <<PyStr("volatility"), PyFloat(args.volatility)>>,
                          <<PyStr("iterations"), PyInt(args.iterations)>>,
                          <<PyStr("method"), PyStr(method_name)>> >>)>>,
              <<PyStr("results"),
                PyDict(<< <<PyStr("call_price"), PyFloat(now.call_price)>>,
                          <<PyStr("put_price"), PyFloat(now.put_price)>>,
                          <<PyStr("analytical_call"), PyFloat(now.bs_call)>>,
                          <<PyStr("analytical_put"), PyFloat(now.bs_put)>>,
                          <<PyStr("call_error"), PyFloat(call_metrics.absolute_error)>>,
                          <<PyStr("put_error"), PyFloat(put_metrics.absolute_error)>>,
                          <<PyStr("call_relative_error"),
                            PyFloat(call_metrics.relative_error)>>,
                          <<PyStr("put_relative_error"),
                            PyFloat(put_metrics.relative_error)>>,
                          <<PyStr("computation_time"),
                            PyFloat(computation_time)>> >>)>> >>)

\* np.random.seed(seed): the stream the seed stands for.
SeedStream(seed) ==
    [i \in 1..Period |->
        IF (seed + i) % 3 = 0 THEN -Pct(120)
        ELSE IF (seed + i) % 3 = 1 THEN 0 ELSE Pct(120)]

\* The file system price_options starts in: with or without the output
\* directory and the results of an earlier run.
CliFsDom ==
    {NoFs,
     [dirs |-> {".", "out"},
      files |-> [q \in {path_join("out", "results.json")} |->
                    json_dump(PyDict(<< <<PyStr("old"), PyInt(1)>> >>))]]}

\* The streams of a generator that was not seeded.
CliEntropy == {[i \in 1..Period |-> z] : z \in {-Pct(120), Pct(120)}}

\* The command lines modelled: the defaults of the parser but for the
\* iteration count and a strike of 0, either method, with and without a
\* seed; and a run of a single iteration, the call and the put simulation of
\* which take different draws of the seed's stream.
ArgsDom ==
    [s0 : {Fx(100)}, strike : {Fx(100), 0}, time : {Fx(1)}, rate : {Pct(5)},
     volatility : {Pct(20)}, iterations : {10, -1},
     method : {"standard", "antithetic"}, seed : {PyNone, PyInt(42)},
     output_dir : {"out"}]
    \cup {[s0 |-> Fx(100), strike |-> Fx(100), time |-> Fx(1), rate |-> Pct(5),
           volatility |-> Pct(20), iterations |-> 1, method |-> "standard",
           seed |-> PyInt(41), output_dir |-> "out"]}

\* time.time() - start_time.
TimeDom == {0, Pct(150)}

NoCli == [pc |-> "none"]

IdleCli == [pc |-> "idle"]

\* The generator price_options draws from: the seed's, from its start, when
\* --seed is given (lines 21-22), else the process's as it is.
cli_generator(args, st, ps, drawn) ==
    IF args.seed = PyNone THEN [stream |-> st, pos |-> ps, consumed |-> drawn]
    ELSE [stream |-> SeedStream(args.seed.v), pos |-> 1, consumed |-> 0]

\* (A variant of cli_failed: the results are saved on the way out.)
cli_failed_saving(args, g, error, ndraws) ==
    /\ cli' = [pc |-> "done", args |-> args, exit |-> 1, warning |-> FALSE,
               error |-> error]
    /\ fs' = save_results_fs(makedirs(fs, args.output_dir), PyDict(<<>>),
                             "results.json", args.output_dir)
    /\ visualizer' = visualizer
    /\ pricer' = args_pricer(args, args.volatility, args.iterations)
    /\ stream' = g.stream
    /\ pos' = Advance(g.pos, ndraws)
    /\ consumed' = g.consumed + ndraws

\* price_options ends with an exception raised before the visualization
\* block, after ndraws draws: exit code 1, nothing written but the output
\* directory, no visualizer constructed.
cli_failed(args, g, error, ndraws) ==
    /\ cli' = [pc |-> "done", args |-> args, exit |-> 1, warning |-> FALSE,
               error |-> error]
    /\ fs' = makedirs(fs, args.output_dir)
    /\ visualizer' = visualizer
    /\ pricer' = args_pricer(args, args.volatility, args.iterations)
    /\ stream' = g.stream
    /\ pos' = Advance(g.pos, ndraws)
    /\ consumed' = g.consumed + ndraws

\* price_options ends after saving the results: exit code 0.
cli_finished(args, g, run, fault, computation_time) ==
    \E call_metrics \in {calculate_performance_metrics(
                             run.main.call_price, run.bs_call, computation_time)},
       put_metrics \in {calculate_performance_metrics(
                            run.main.put_price, run.bs_put, computation_time)},
       calls \in {plot_calls(run)} :
        \E results \in {results_dict(args, run.main.method_name,
                                     reported(run, fault), call_metrics,
                                     put_metrics, computation_time)} :
            /\ cli' = [pc |-> "done", args |-> args, exit |-> 0,
                       warning |-> fault.plot # 0, error |-> "none",
                       method_name |-> run.main.method_name,
                       main |-> [call_price |-> run.main.call_price,
                                 put_price |-> run.main.put_price,
                                 bs_call |-> run.bs_call, bs_put |-> run.bs_put,
                                 first_draws |-> run.main.first_draws],
                       call_metrics |-> call_metrics, put_metrics |-> put_metrics,
                       plots |-> IF fault.plot = 0 THEN calls
                                 ELSE SubSeq(calls, 1, fault.plot),
                       results |-> results]
            /\ fs' = save_results_fs(
                         plots_fs(makedirs(fs, args.output_dir), args.output_dir,
                                  calls, 1, fault),
                         results, "results.json", args.output_dir)
            /\ visualizer' = OptionVisualizer(args.output_dir)
            /\ pricer' = args_pricer(args, args.volatility, args.iterations)
            /\ stream' = g.stream
            /\ pos' = Advance(g.pos, run_ndraws(run, fault))
            /\ consumed' = g.consumed + run_ndraws(run, fault)

\* The price command, from the parsed arguments to the exit code.
price_options ==
    /\ entry = "cli"
    /\ cli.pc = "idle"
    /\ \E args \in ArgsDom :
        \E g \in {cli_generator(args, stream, pos, consumed)} :
            IF normal_raises(args_pricer(args, args.volatility, args.iterations),
                             args.method)
            THEN cli_failed(args, g, "ValueError", 0)
            ELSE IF analytical_raises(
                        args_pricer(args, args.volatility, args.iterations))
            THEN \E main \in {main_step(args, g.stream, g.pos)} :
                     cli_failed(args, g, "ZeroDivisionError", main.ndraws)
            ELSE \E run \in {cli_run(args, g.stream, g.pos)} :
                 \E fault \in FaultDom, computation_time \in TimeDom :
                     cli_finished(args, g, run, fault, computation_time)
    /\ UNCHANGED <<nops, last, batch, est, bs, ci, entry, io>>

\* The directories a visualizer is constructed with: the default and another.
VisualizerDirs == {"figures", "out"}

\* The filename argument: the default None, and a name.
PlotFilenames == {PyNone, PyStr("test_plot")}

\* The lengths of the data plotted.
PlotRows == {1, 3}

\* A plot operation of the visualizer ends: the files are written, the
\* figure is returned.
Plotted(call) ==
    /\ entry = "visualization"
    /\ io.n < MaxOps
    /\ fs' = plot_saved(fs, visualizer.output_dir, call)
    /\ io' = [io EXCEPT !.n = @ + 1, !.op = call.op, !.results = PyNone,
                        !.filename = call.filename,
                        !.directory = visualizer.output_dir,
                        !.ret = Figure, !.raised = "none"]
    /\ UNCHANGED <<pricer, stream, pos, consumed, nops, last, batch, est, bs, ci,
                   entry, cli, visualizer>>

plot_convergence ==
    \E filename \in PlotFilenames, rows \in PlotRows :
        Plotted([op |-> "plot_convergence", filename |-> filename, rows |-> rows])

plot_price_distribution ==
    \E filename \in PlotFilenames, rows \in PlotRows :
        Plotted([op |-> "plot_price_distribution", filename |-> filename,
                 rows |-> rows])

plot_parameter_sensitivity ==
    \E filename \in PlotFilenames, rows \in PlotRows,
       parameter_name \in {"Volatility", "Strike"} :
        Plotted([op |-> "plot_parameter_sensitivity", filename |-> filename,
                 rows |-> rows, parameter_name |-> parameter_name])

\* The Monte Carlo prices calculate_performance_metrics is called with: the
\* prices of the test (10.5 against 10.45), and prices below, at and above
\* the analytical price.
McPriceDom == {0, Fx(5), Pct(1045), Pct(1050), Fx(20)}

\* The analytical prices it is called with: positive, and a negative one.
AnalyticalPriceDom == {Fx(5), Pct(1045), -Fx(5)}

\* A call of calculate_performance_metrics: io keeps the arguments, in
\* results, and the dictionary returned.
performance_metrics ==
    /\ entry = "utils"
    /\ io.n < MaxOps
    /\ \E mc_price \in McPriceDom, analytical_price \in AnalyticalPriceDom,
          computation_time \in TimeDom :
        io' = [io EXCEPT
                  !.n = @ + 1, !.op = "metrics",
                  !.results = PyTuple(<<PyFloat(mc_price), PyFloat(analytical_price),
                                        PyFloat(computation_time)>>),
                  !.filename = "", !.directory = "",
                  !.ret = calculate_performance_metrics(
                              mc_price, analytical_price, computation_time),
                  !.raised = "none"]
    /\ UNCHANGED <<pricer, stream, pos, consumed, nops, last, batch, est, bs, ci,
                   entry, fs, cli, visualizer>>

Init ==
    /\ pos = 1
    /\ consumed = 0
    /\ nops = 0
    /\ last = "init"
    /\ batch = NoBatch
    /\ est = [kind |-> "none", value |-> 0]
    /\ bs = [done |-> FALSE]
    /\ ci = [done |-> FALSE]
    /\ io = NoIo
    /\ \/ /\ entry = "library"
          /\ pricer \in Params
          /\ stream \in [1..Period -> ZDom]
          /\ fs = NoFs
          /\ cli = NoCli
          /\ visualizer = NoVisualizer
       \/ /\ entry = "utils"
          /\ pricer = NoPricer
          /\ stream = [i \in 1..Period |-> 0]
          /\ fs \in FsDom
          /\ cli = NoCli
          /\ visualizer = NoVisualizer
       \/ /\ entry = "cli"
          /\ pricer = NoPricer
          /\ stream \in CliEntropy
          /\ fs \in CliFsDom
          /\ cli = IdleCli
          /\ visualizer = NoVisualizer
       \/ /\ entry = "visualization"
          /\ pricer = NoPricer
          /\ stream = [i \in 1..Period |-> 0]
          /\ cli = NoCli
          /\ \E output_dir \in VisualizerDirs, f \in FsDom :
                /\ visualizer = OptionVisualizer(output_dir)
                /\ fs = makedirs(f, output_dir)

Next ==
    \/ call_option_simulation
    \/ put_option_simulation
    \/ antithetic_call_simulation
    \/ antithetic_put_simulation
    \/ bs_analytical_price
    \/ confidence_intervals
    \/ save_results
    \/ load_results
    \/ performance_metrics
    \/ plot_convergence
    \/ plot_price_distribution
    \/ plot_parameter_sensitivity
    \/ price_options

Spec == Init /\ [][Next]_vars

\* ------------------------------------------------------------------------
\* Properties
\* ------------------------------------------------------------------------

\* The parameter sets of the data model: S0, E, T and sigma positive, the
\* iteration count a positive integer.
Valid(p) ==
    p.S0 > 0 /\ p.E > 0 /\ p.T > 0 /\ p.sigma > 0 /\ p.iterations >= 1

IsAntithetic(op) == op \in {"acall", "aput"}

IsCallOp(op) == op \in {"call", "acall"}

\* exp(-rf * T).
Discount(p) == FExp(FNeg(FMul(p.rf, p.T)))

\* C1: a step of call_option_simulation or put_option_simulation on a pricer
\* with iteration count N takes exactly the next N values of the generator,
\* has N terminal prices and N payoffs (the arrays returned under
\* return_paths), and returns exp(-rf*T) times the mean of the N payoffs, the
\* discount applied once, to the mean.
C1_StandardSimulation ==
    [][(nops' = nops + 1 /\ last' \in {"call", "put"}) =>
        LET N == pricer.iterations
            b == batch'
        IN  /\ consumed' = consumed + N
            /\ pos' = Advance(pos, N)
            /\ b.rand = [i \in 1..N |-> stream[Advance(pos, i - 1)]]
            /\ Len(b.stock_price) = N
            /\ Len(b.payoffs) = N
            /\ b.return_paths => b.ret.paths = <<b.stock_price, b.payoffs>>
            /\ b.ret.price = FMul(Discount(pricer), FDivInt(FSum(b.payoffs), N))
      ]_vars

\* A put simulation of three paths returned its arrays and a positive price
\* from payoffs that differ.
C1_Witness ==
    /\ last = "put"
    /\ batch.return_paths
    /\ pricer.iterations = 3
    /\ consumed = 3
    /\ Len(batch.ret.paths[2]) = 3
    /\ batch.payoffs[1] # batch.payoffs[2]
    /\ batch.ret.price > 0

\* C2: in the four simulations every payoff is max(S_T - E, 0) of its own
\* terminal price in the call operations and max(E - S_T, 0) in the put
\* operations.
C2_Payoffs ==
    batch.op # "none" =>
        /\ DOMAIN batch.payoffs = DOMAIN batch.stock_price
        /\ \A i \in DOMAIN batch.payoffs :
            LET S_T == batch.stock_price[i]
                E == pricer.E
            IN  batch.payoffs[i] =
                    IF IsCallOp(batch.op)
                    THEN (IF S_T - E > 0 THEN S_T - E ELSE 0)
                    ELSE (IF E - S_T > 0 THEN E - S_T ELSE 0)

\* An antithetic put simulation with a path in the money and a path out of it.
C2_Witness ==
    /\ batch.op = "aput"
    /\ \E i, j \in DOMAIN batch.payoffs :
        /\ batch.payoffs[i] > 0
        /\ batch.payoffs[j] = 0
        /\ batch.stock_price[j] > pricer.E

\* C3: every payoff is >= 0, and the price a pricing operation returns for a
\* valid parameter set is finite and >= 0.
C3_NonNegativeFinite ==
    batch.op # "none" =>
        /\ \A i \in DOMAIN batch.payoffs : batch.payoffs[i] >= 0
        /\ Valid(pricer) =>
               IsFinite(batch.ret.price) /\ batch.ret.price >= 0

\* C4: in the antithetic simulations the draws are the next N div 2 values of
\* the generator followed by their negations: position i + N div 2 holds minus
\* position i, and the sum of the draws is 0.
C4_AntitheticPairs ==
    IsAntithetic(batch.op) =>
        LET h == pricer.iterations \div 2
        IN  /\ Len(batch.rand) = 2 * h
            /\ batch.ndraws = h
            /\ \A i \in 1..h : batch.rand[i] = stream[Advance(batch.pos0, i - 1)]
            /\ \A i \in 1..h : batch.rand[i + h] = -batch.rand[i]
            /\ FSum(batch.rand) = 0

\* An antithetic call simulation of 45 pairs whose first two draws differ and
\* are not 0.
C4_Witness ==
    /\ batch.op = "acall"
    /\ pricer.iterations = 3 * n_samples + 1
    /\ Len(batch.rand) = 3 * n_samples
    /\ batch.rand[1] # 0
    /\ batch.rand[2] # 0
    /\ batch.rand[1] # batch.rand[2]

\* C5: the antithetic simulations work on 2 * (N div 2) terminal prices and
\* payoffs, N of them for even N and N - 1 for odd N, and the mean is taken
\* over that many payoffs (of no payoff it is NaN: no exception is raised).
C5_AntitheticBatch ==
    IsAntithetic(batch.op) =>
        LET N == pricer.iterations
            m == 2 * (N \div 2)
        IN  /\ Len(batch.stock_price) = m
            /\ Len(batch.payoffs) = m
            /\ m = IF N % 2 = 0 THEN N ELSE N - 1
            /\ batch.ret.price =
                   IF m = 0 THEN NaN
                   ELSE FMul(Discount(pricer), FDivInt(FSum(batch.payoffs), m))

\* An antithetic put simulation asked for three iterations priced two paths.
C5_Witness ==
    /\ batch.op = "aput"
    /\ pricer.iterations = 3
    /\ Len(batch.payoffs) = 2
    /\ batch.ret.price > 0

\* The sum of f over the set S.
RECURSIVE FSumOver(_, _)
FSumOver(f, S) ==
    IF S = {} THEN 0
    ELSE LET x == CHOOSE y \in S : TRUE
         IN  FAdd(f[x], FSumOver(f, S \ {x}))

\* The generator's possible outputs over n draws, each as likely as the
\* others: a draw distribution symmetric about 0, ZDom being symmetric.
Outcomes(n) == [1..n -> ZDom]

\* The expected value of a price given for each outcome of n draws.
Expected(price, n) == FDivInt(FSumOver(price, Outcomes(n)), Cardinality(Outcomes(n)))

ExpectedStandard(op, p) ==
    Expected([st \in Outcomes(p.iterations) |->
                 IF op = "acall" THEN CallSim(p, st, 1).option_price
                 ELSE PutSim(p, st, 1).option_price],
             p.iterations)

ExpectedAntithetic(op, p) ==
    Expected([st \in Outcomes(p.iterations \div 2) |->
                 IF op = "acall" THEN AntitheticCallSim(p, st, 1).option_price
                 ELSE AntitheticPutSim(p, st, 1).option_price],
             p.iterations \div 2)

\* The two expected values agree to two units of the last decimal place
\* (each is a rounded mean of rounded prices).
Unbiased(op, p) ==
    /\ IsFinite(ExpectedAntithetic(op, p))
    /\ Abs(ExpectedAntithetic(op, p) - ExpectedStandard(op, p)) <= 2

\* C6: over the outcomes of the draws, the expected price of an antithetic
\* simulation equals the expected price of the standard simulation of the
\* same option on the same pricer (iteration counts up to MaxN: all outcomes
\* are enumerated).
C6_Unbiased ==
    (IsAntithetic(batch.op) /\ Valid(pricer) /\ pricer.iterations <= MaxN) =>
        Unbiased(batch.op, pricer)

\* C6 from two iterations on, where an antithetic simulation has a pair to
\* price: the expected antithetic price equals the expected standard price.
C6_UnbiasedFromTwo ==
    (IsAntithetic(batch.op) /\ Valid(pricer) /\ pricer.iterations \in 2..MaxN) =>
        Unbiased(batch.op, pricer)

\* The parameters of the reference case: S0 = 100, E = 100, T = 1,
\* rf = 0.05, sigma = 0.2.
IsReference(p) ==
    /\ p.S0 = Fx(100)
    /\ p.E = Fx(100)
    /\ p.T = Fx(1)
    /\ p.rf = Pct(5)
    /\ p.sigma = Pct(20)

\* C7: a step of bs_analytical_price leaves the generator as it was and
\* returns (call, put) with d1 = (ln(S0/E) + (rf + 0.5*sigma^2)*T) /
\* (sigma*sqrt(T)), d2 = d1 - sigma*sqrt(T), call = S0*Phi(d1) -
\* E*exp(-rf*T)*Phi(d2), put = E*exp(-rf*T)*Phi(-d2) - S0*Phi(-d1), a function
\* of the parameters alone; in the reference case the call is within 0.1 of
\* 10.45 and the put within 0.1 of 5.57.
C7_BlackScholes ==
    [][(nops' = nops + 1 /\ last' = "bs") =>
        LET p == pricer
            sd == FMul(p.sigma, FSqrt(p.T))
            d1 == FDiv(FAdd(FLn(FDiv(p.S0, p.E)),
                            FMul(FAdd(p.rf, FMul(Half, FMul(p.sigma, p.sigma))),
                                 p.T)),
                       sd)
            d2 == FSub(d1, sd)
            call == FSub(FMul(p.S0, norm_cdf(d1)),
                         FMul(FMul(p.E, Discount(p)), norm_cdf(d2)))
            put == FSub(FMul(FMul(p.E, Discount(p)), norm_cdf(FNeg(d2))),
                        FMul(p.S0, norm_cdf(FNeg(d1))))
        IN  /\ UNCHANGED <<stream, pos, consumed>>
            /\ Valid(p) => bs'.ret = <<call, put>>
            /\ IsReference(p) =>
                   /\ Abs(bs'.ret[1] - Pct(1045)) <= Pct(10)
                   /\ Abs(bs'.ret[2] - Pct(557)) <= Pct(10)
      ]_vars

\* bs_analytical_price ran on the reference case after a simulation had
\* drawn from the generator.
C7_Witness ==
    /\ last = "bs"
    /\ bs.done
    /\ IsReference(pricer)
    /\ consumed = pricer.iterations
    /\ consumed > 0
    /\ bs.ret[1] > bs.ret[2]

\* C8: for valid parameters the pair bs_analytical_price returns satisfies
\* call - put = S0 - E*exp(-rf*T), to one unit of the last decimal place (the
\* two prices are sums of rounded products).
C8_PutCallParity ==
    (bs.done /\ Valid(pricer)) =>
        Abs((bs.ret[1] - bs.ret[2])
            - (pricer.S0 - FMul(pricer.E, Discount(pricer)))) <= 1

\* bs_analytical_price ran on valid parameters with the strike away from S0
\* and priced both options above 0.
C8_Witness ==
    /\ bs.done
    /\ Valid(pricer)
    /\ pricer.E # pricer.S0
    /\ bs.ret[1] > 0
    /\ bs.ret[2] > 0

\* C9: a step of confidence_intervals on a pricer with iteration count N
\* makes n_samples = 30 standard call simulations, each on a pricer with the
\* caller's S0, E, T, rf, sigma and iteration count N div 30, each on the
\* generator's next N div 30 values (30 * (N div 30) values in all), and
\* returns price -/+ z * se, se the standard deviation of the 30 prices with
\* divisor 29 over sqrt(30), z the inverse normal CDF at (1 + confidence) / 2.
C9_ConfidenceIntervals ==
    [][(nops' = nops + 1 /\ last' = "ci") =>
        LET sub == pricer.iterations \div 30
            draws(k) == [i \in 1..sub |->
                            stream[Advance(pos, (k - 1) * sub + i - 1)]]
            payoff(k) == [i \in 1..sub |->
                            FMax(FSub(terminal_price(pricer, draws(k)[i]),
                                      pricer.E), 0)]
            dev2(prices, mean) ==
                [k \in 1..30 |->
                    FMul(FSub(prices[k], mean), FSub(prices[k], mean))]
        IN  \E c \in {ci'} :
            \E mean \in {FDivInt(FSum(c.prices), 30)} :
            \E var \in {FDivInt(FSum(dev2(c.prices, mean)), 29)} :
            \E se \in {FDiv(FSqrt(var), FSqrt(Fx(30)))} :
            \E q \in {FDiv(One + c.confidence, Fx(2))} :
                /\ n_samples = 30
                /\ Len(c.prices) = 30
                /\ \A k \in 1..30 :
                    /\ c.pricers[k] = [pricer EXCEPT !.iterations = sub]
                    /\ c.ops[k] = "call"
                    /\ c.rands[k] = draws(k)
                    /\ c.prices[k] =
                           IF sub = 0 THEN NaN
                           ELSE FMul(Discount(pricer),
                                     FDivInt(FSum(payoff(k)), sub))
                /\ consumed' = consumed + 30 * sub
                /\ pos' = Advance(pos, 30 * sub)
                /\ c.price = est.value
                /\ norm_cdf(c.z - 1) < q
                /\ q <= norm_cdf(c.z)
                /\ c.ret = <<FSub(c.price, FMul(c.z, se)),
                             FAdd(c.price, FMul(c.z, se))>>
      ]_vars

\* confidence_intervals ran on a call price with 91 iterations: sub-runs of
\* three paths, 90 draws, sub-estimates that differ, a proper interval.
C9_Witness ==
    /\ last = "ci"
    /\ ci.done
    /\ ci.kind = "call"
    /\ pricer.iterations = 3 * n_samples + 1
    /\ ci.pricers[1].iterations = 3
    /\ ci.ndraws = 90
    /\ ci.std_err > 0
    /\ ci.ret[1] < ci.price
    /\ ci.price < ci.ret[2]

\* C10: whatever price confidence_intervals is given, a call price or a put
\* price, its sub-estimates are standard call simulations, and the half-width
\* of the interval is z times their standard error: a function of the
\* pricer, the generator and the confidence level in which the price does
\* not occur; the price is the centre.
C10_CallSubEstimates ==
    ci.done =>
        LET tp == [pricer EXCEPT !.iterations = pricer.iterations \div n_samples]
            calls == [k \in 1..n_samples |->
                         CallSim(tp, stream,
                                 Advance(ci.pos0, (k - 1) * tp.iterations)).option_price]
            halfwidth == FMul(z_score(ci.confidence),
                              FDiv(np_std(calls, 1), FSqrt(Fx(n_samples))))
        IN  /\ \A k \in 1..n_samples : ci.ops[k] = "call"
            /\ ci.prices = calls
            /\ FSub(ci.ret[2], ci.price) = halfwidth
            /\ FSub(ci.price, ci.ret[1]) = halfwidth

\* confidence_intervals ran on a put price, and the call and the put
\* sub-estimates of its first sub-run differ.
C10_Witness ==
    /\ ci.done
    /\ ci.kind = "put"
    /\ ci.std_err > 0
    /\ IsFinite(ci.price)
    /\ ci.ret[1] < ci.price
    /\ ci.price < ci.ret[2]
    /\ ci.prices[1] # PutSim(ci.pricers[1], stream, ci.pos0).option_price

\* float64 comparison: no comparison with nan holds.
FLe(a, b) == a # NaN /\ b # NaN /\ a <= b

FEq(a, b) == a # NaN /\ b # NaN /\ a = b

\* C11: for every valid parameter set, whatever its iteration count, and
\* every confidence level, confidence_intervals returns (lower, upper) with
\* lower <= upper and price - lower = upper - price.
C11_OrderedCentred ==
    (ci.done /\ Valid(pricer)) =>
        /\ FLe(ci.ret[1], ci.ret[2])
        /\ FEq(FSub(ci.price, ci.ret[1]), FSub(ci.ret[2], ci.price))

\* C11 from n_samples iterations on, where every sub-run has a path to
\* price: the pair is ordered and centred on the price.
C11_OrderedFromThirty ==
    (ci.done /\ pricer.iterations >= n_samples /\ Valid(pricer)) =>
        /\ FLe(ci.ret[1], ci.ret[2])
        /\ FEq(FSub(ci.price, ci.ret[1]), FSub(ci.ret[2], ci.price))

\* The parameter sets the specification calls invalid: a non-positive or
\* non-finite S0, E, T or sigma.
Invalid(p) ==
    \E x \in {p.S0, p.E, p.T, p.sigma} : x <= 0 \/ ~IsFinite(x)

\* C12: on invalid parameters no operation completes: no simulation has run,
\* no value of the generator has been taken, nothing has been returned.
C12_InvalidRejected ==
    Invalid(pricer) =>
        /\ batch.op = "none"
        /\ consumed = 0
        /\ ~bs.done
        /\ ~ci.done

\* C13: bs_analytical_price returns nothing when sigma * sqrt(T) = 0 (it
\* raises), in particular no nan and no infinite price.
C13_DegenerateRejected ==
    (bs.done /\ FMul(pricer.sigma, FSqrt(pricer.T)) = 0) =>
        /\ FALSE
        /\ IsFinite(bs.ret[1])
        /\ IsFinite(bs.ret[2])

\* C14: no antithetic simulation completes on fewer than two iterations: no
\* price is computed from an empty sample (stated for parameter sets valid
\* otherwise).
C14_AntitheticRejected ==
    (IsAntithetic(batch.op) /\ Valid(pricer)) =>
        /\ pricer.iterations >= 2
        /\ Len(batch.payoffs) > 0

\* C15: confidence_intervals does not complete on fewer iterations than
\* n_samples: no sub-run has zero iterations and no nan interval is returned
\* (stated for parameter sets valid otherwise).
C15_SmallSampleRejected ==
    (ci.done /\ Valid(pricer)) =>
        /\ pricer.iterations >= n_samples
        /\ \A k \in 1..n_samples : ci.pricers[k].iterations > 0
        /\ ci.ret[1] # NaN
        /\ ci.ret[2] # NaN

\* sigma * sqrt(T) = 0: the terminal price does not depend on the draw.
Deterministic(p) == p.sigma = 0 \/ p.T = 0

\* The price the terminal price S0 * exp(rf * T) gives.
DeterministicPrice(op, p) ==
    LET S_T == FMul(p.S0, FExp(FMul(p.rf, p.T)))
        payoff == IF IsCallOp(op) THEN FMax(FSub(S_T, p.E), 0)
                  ELSE FMax(FSub(p.E, S_T), 0)
    IN  FMul(Discount(p), payoff)

\* C16: with sigma = 0 or T = 0 every terminal price of a simulation's batch
\* is S0 * exp(rf * T), and the price returned is exp(-rf * T) times the
\* payoff at that terminal price.
C16_Deterministic ==
    (batch.op # "none" /\ Deterministic(pricer)) =>
        /\ \A i \in DOMAIN batch.stock_price :
               batch.stock_price[i] = FMul(pricer.S0, FExp(FMul(pricer.rf, pricer.T)))
        /\ batch.ret.price = DeterministicPrice(batch.op, pricer)

\* C16 for the simulations that have a path to price (the standard ones, the
\* antithetic ones from two iterations on).
C16_DeterministicNonEmpty ==
    (batch.op # "none" /\ Deterministic(pricer) /\ Len(batch.payoffs) > 0) =>
        /\ \A i \in DOMAIN batch.stock_price :
               batch.stock_price[i] = FMul(pricer.S0, FExp(FMul(pricer.rf, pricer.T)))
        /\ batch.ret.price = DeterministicPrice(batch.op, pricer)

\* C17: no operation changes the pricer's S0, E, T, rf, sigma or iteration
\* count; apart from what it returns, an operation changes the generator's
\* state at most (the position in its stream, never the stream); the
\* sub-runs of confidence_intervals are on pricers of their own, and the
\* caller's iteration count is N after it as before.
C17_ParametersImmutable ==
    [][entry = "library" =>
        /\ pricer' = pricer
        /\ stream' = stream
        /\ (nops' = nops + 1 /\ last' = "ci") =>
               /\ pricer'.iterations = pricer.iterations
               /\ \A k \in 1..n_samples :
                      ci'.pricers[k] =
                          [pricer' EXCEPT !.iterations = pricer.iterations \div n_samples]
      ]_vars

\* confidence_intervals has run on a pricer of 91 iterations, which still has
\* 91 iterations, on sub-pricers of 3.
C17_Witness ==
    /\ last = "ci"
    /\ ci.done
    /\ pricer.iterations = 3 * n_samples + 1
    /\ \A k \in 1..n_samples : ci.pricers[k].iterations = 3
    /\ consumed >= 3 * n_samples

\* The value an operation returns when the generator has given out `drawn`
\* values of the seed's stream.
ReturnedAt(op, p, st, drawn, price, confidence) ==
    LET ps == (drawn % Period) + 1
    IN  CASE op = "call" -> CallSim(p, st, ps).option_price
          [] op = "put" -> PutSim(p, st, ps).option_price
          [] op = "acall" -> AntitheticCallSim(p, st, ps).option_price
          [] op = "aput" -> AntitheticPutSim(p, st, ps).option_price
          [] op = "bs" -> <<BsPrice(p).call_price, BsPrice(p).put_price>>
          [] op = "ci" -> ConfidenceIntervals(p, st, ps, price, confidence).ret

\* The values of the generator an operation takes.
DrawsOf(op, p) ==
    CASE op \in {"call", "put"} -> p.iterations
      [] op \in {"acall", "aput"} -> p.iterations \div 2
      [] op = "bs" -> 0
      [] op = "ci" -> n_samples * (p.iterations \div n_samples)

\* C18: what an operation returns, and the state it leaves the generator in,
\* are determined by the seed (the stream), the parameters, the operation
\* and the number of values the operations before it have taken, itself
\* determined by those operations: two runs from one seed that make the same
\* calls return the same values at every step.  No operation reseeds.  A run
\* of the price command with --seed draws from the seed's stream from its
\* first draw on, whatever state the generator was in.
C18_Reproducible ==
    [][/\ (cli.pc = "idle" /\ cli'.pc = "done" /\ cli'.exit = 0
            /\ cli'.args.seed # PyNone) =>
           \E seeded \in {SeedStream(cli'.args.seed.v)} :
               /\ stream' = seeded
               /\ Len(cli'.main.first_draws) > 0
               /\ \A i \in DOMAIN cli'.main.first_draws :
                      cli'.main.first_draws[i] = seeded[((i - 1) % Period) + 1]
               /\ pos' = (consumed' % Period) + 1
       /\ (nops' = nops + 1) =>
        /\ stream' = stream
        /\ pos = (consumed % Period) + 1
        /\ consumed' = consumed + DrawsOf(last', pricer)
        /\ pos' = (consumed' % Period) + 1
        /\ \E v \in {ReturnedAt(last', pricer, stream, consumed, est.value,
                                IF last' = "ci" THEN ci'.confidence ELSE 0)} :
               CASE last' \in {"call", "put", "acall", "aput"} ->
                        batch'.ret.price = v /\ est'.value = v
                 [] last' = "bs" -> bs'.ret = v
                 [] last' = "ci" -> ci'.ret = v
      ]_vars

\* A second operation has run, on draws that do not begin the stream.
C18_Witness ==
    /\ nops = 2
    /\ last \in {"call", "put"}
    /\ batch.pos0 = 2
    /\ consumed = 2 * pricer.iterations
    /\ stream[1] # stream[2]
    /\ batch.ret.price > 0


\* ------------------------------------------------------------------------
\* C19
\* ------------------------------------------------------------------------

\* key in d, for a dict d.
PyIn(key, d) == d.t = "dict" /\ \E i \in DOMAIN d.v : d.v[i][1] = key

\* d[key], for a key of d.
PyGet(d, key) == d.v[CHOOSE i \in DOMAIN d.v : d.v[i][1] = key][2]

\* Parameters the command is meant for.
ValidArgs(args) ==
    /\ args.s0 > 0 /\ args.strike > 0 /\ args.time > 0 /\ args.volatility > 0
    /\ args.iterations >= 1

\* The method name the results are to carry.
MethodName(method) ==
    IF method = "antithetic" THEN "Antithetic Variates Monte Carlo"
    ELSE "Standard Monte Carlo"

\* C19: a run of the price command with valid parameters, either method,
\* has ended with exit code 0 and results.json is in the output directory;
\* loaded, it has a 'parameters' and a 'results' section, 'results' has
\* 'call_price' and 'put_price', and parameters.method is the name of the
\* method selected: the antithetic name, which contains 'Antithetic', for
\* --method antithetic, the standard method's name otherwise.
C19_ResultsWritten ==
    (cli.pc = "done" /\ ValidArgs(cli.args)) =>
        /\ cli.exit = 0
        /\ cli.args.output_dir \in fs.dirs
        /\ exists(fs, path_join(cli.args.output_dir, "results.json"))
        /\ \E results \in {load_results_value(fs, "results.json",
                                              cli.args.output_dir)} :
            /\ PyIn(PyStr("parameters"), results)
            /\ PyIn(PyStr("results"), results)
            /\ PyIn(PyStr("call_price"), PyGet(results, PyStr("results")))
            /\ PyIn(PyStr("put_price"), PyGet(results, PyStr("results")))
            /\ PyIn(PyStr("method"), PyGet(results, PyStr("parameters")))
            /\ PyGet(PyGet(results, PyStr("parameters")), PyStr("method"))
                   = PyStr(MethodName(cli.args.method))

\* An antithetic run has ended; a plot call raised on the way, and the
\* results of an earlier run were in the directory or not.
C19_Witness ==
    /\ cli.pc = "done"
    /\ ValidArgs(cli.args)
    /\ cli.args.method = "antithetic"
    /\ cli.exit = 0
    /\ cli.warning
    /\ exists(fs, path_join("out", "results.json"))
    /\ ~exists(fs, path_join("out", "put_volatility_sensitivity.csv"))


\* ------------------------------------------------------------------------
\* C20
\* ------------------------------------------------------------------------

\* Python's ==, as assertEqual applies it to the loaded dictionary: nan
\* equals nothing, an int equals the float and the bool of its value, a list
\* never equals a tuple, two dicts are equal when they have the same keys
\* with equal values, in any order.
RECURSIVE PyEq(_, _)
PyEq(a, b) ==
    CASE a.t = "float" /\ b.t = "float" ->
            a.v # NaN /\ b.v # NaN /\ a.v = b.v
      [] a.t = "int" /\ b.t = "float" -> IsFinite(b.v) /\ b.v = Fx(a.v)
      [] a.t = "float" /\ b.t = "int" -> IsFinite(a.v) /\ a.v = Fx(b.v)
      [] a.t = "bool" /\ b.t = "int" -> b.v = (IF a.v THEN 1 ELSE 0)
      [] a.t = "int" /\ b.t = "bool" -> a.v = (IF b.v THEN 1 ELSE 0)
      [] a.t \in {"list", "tuple"} /\ b.t = a.t ->
            /\ Len(a.v) = Len(b.v)
            /\ \A i \in DOMAIN a.v : PyEq(a.v[i], b.v[i])
      [] a.t = "dict" /\ b.t = "dict" ->
            /\ Len(a.v) = Len(b.v)
            /\ \A i \in DOMAIN a.v : \E k \in DOMAIN b.v :
                  /\ a.v[i][1] = b.v[k][1]
                  /\ PyEq(a.v[i][2], b.v[k][2])
      [] OTHER -> a.t = b.t /\ a = b

\* A value JSON holds as it is: None, a bool, an int, a str, a float that is
\* not nan, a list of such values, a dict of such values with str keys.
RECURSIVE JsonNative(_)
JsonNative(value) ==
    CASE value.t \in {"None", "bool", "int", "str"} -> TRUE
      [] value.t = "float" -> value.v # NaN
      [] value.t = "list" -> \A i \in DOMAIN value.v : JsonNative(value.v[i])
      [] value.t = "dict" ->
            \A i \in DOMAIN value.v :
                value.v[i][1].t = "str" /\ JsonNative(value.v[i][2])
      [] OTHER -> FALSE

\* The path of the last call of save_results or load_results.
IoPath == path_join(io.directory, io.filename)

\* save_results leaves the directory and the file in place.
SaveCreates ==
    io.op = "save" => (io.directory \in fs.dirs /\ exists(fs, IoPath))

\* C20 as stated: load_results after save_results with the same filename
\* and directory returns a dictionary equal to the one saved, whatever
\* dictionary json.dump accepts; save_results creates the directory and the
\* file exists after it.
C20_RoundTrip ==
    /\ SaveCreates
    /\ (io.op = "load" /\ IoPath \in DOMAIN io.saved) =>
          (io.raised = "none" /\ PyEq(io.ret, io.saved[IoPath]))

\* C20 amended: the round trip returns an equal dictionary when the saved one
\* has str keys at every level and holds only None, bools, ints, strs, floats
\* other than nan, lists of such values and such dictionaries; save_results
\* creates the directory and the file exists after it.
C20_RoundTripJsonNative ==
    /\ SaveCreates
    /\ (io.op = "load" /\ IoPath \in DOMAIN io.saved
          /\ JsonNative(io.saved[IoPath])) =>
          (io.raised = "none" /\ PyEq(io.ret, io.saved[IoPath]))

\* A nested dictionary saved into the output directory and loaded again.
C20_Witness ==
    /\ io.op = "load"
    /\ io.directory = "out"
    /\ IoPath \in DOMAIN io.saved
    /\ JsonNative(io.saved[IoPath])
    /\ \E i \in DOMAIN io.saved[IoPath].v : io.saved[IoPath].v[i][2].t = "dict"
    /\ io.ret = io.saved[IoPath]

\* ------------------------------------------------------------------------
\* C21
\* ------------------------------------------------------------------------

\* |a - b| for finite a and b.
AbsDiff(a, b) == IF a >= b THEN a - b ELSE b - a

\* C21: calculate_performance_metrics(mc_price, analytical_price,
\* computation_time), for finite prices, returns absolute_error =
\* |mc_price - analytical_price|, relative_error = that difference divided by
\* analytical_price, and computation_time as given; when analytical_price > 0
\* both errors are >= 0, and each is 0 exactly when mc_price =
\* analytical_price.
C21_PerformanceMetrics ==
    io.op = "metrics" =>
        \E mc_price \in {io.results.v[1].v},
           analytical_price \in {io.results.v[2].v},
           computation_time \in {io.results.v[3].v} :
            /\ DOMAIN io.ret = {"absolute_error", "relative_error", "computation_time"}
            /\ io.ret.absolute_error = AbsDiff(mc_price, analytical_price)
            /\ io.ret.relative_error
                   = FDiv(AbsDiff(mc_price, analytical_price), analytical_price)
            /\ io.ret.computation_time = computation_time
            /\ analytical_price > 0 =>
                   /\ IsFinite(io.ret.absolute_error) /\ io.ret.absolute_error >= 0
                   /\ IsFinite(io.ret.relative_error) /\ io.ret.relative_error >= 0
                   /\ io.ret.absolute_error = 0 <=> mc_price = analytical_price
                   /\ io.ret.relative_error = 0 <=> mc_price = analytical_price

\* The call of the test: 10.5 against 10.45 gives an absolute error of 0.05
\* and a relative error of 0.05 / 10.45, after 1.5 seconds.
C21_Witness ==
    /\ io.op = "metrics"
    /\ io.results.v[1].v = Pct(1050)
    /\ io.results.v[2].v = Pct(1045)
    /\ io.ret.absolute_error = Pct(5)
    /\ io.ret.relative_error = FDiv(Pct(5), Pct(1045))
    /\ io.ret.relative_error > 0
    /\ io.ret.computation_time = Pct(150)

\* ------------------------------------------------------------------------
\* C22
\* ------------------------------------------------------------------------

\* The names the claim gives the files of a plot operation.
ClaimedPlotFiles(op, filename) ==
    {filename \o ".png", filename \o ".pdf"}
    \cup (IF op = "plot_price_distribution"
          THEN {filename \o "_prices.csv", filename \o "_payoffs.csv"}
          ELSE {filename \o ".csv"})

\* C22: a plot operation of the visualizer called with a filename leaves
\* <filename>.png, <filename>.pdf and its data file(s) in output_dir
\* (<filename>.csv for plot_convergence and plot_parameter_sensitivity,
\* <filename>_prices.csv and <filename>_payoffs.csv for
\* plot_price_distribution), touches no other file, and returns the figure;
\* called without a filename it returns the figure and leaves the file system
\* as it was.
C22_PlotFiles ==
    [][(entry = "visualization" /\ io'.n = io.n + 1) =>
          /\ io'.ret = Figure
          /\ io'.op \in {"plot_convergence", "plot_price_distribution",
                         "plot_parameter_sensitivity"}
          /\ IF io'.filename = PyNone THEN fs' = fs
             ELSE \E written \in {{path_join(visualizer.output_dir, name) :
                                      name \in ClaimedPlotFiles(io'.op, io'.filename.v)}} :
                    /\ fs'.dirs = fs.dirs
                    /\ DOMAIN fs'.files = DOMAIN fs.files \cup written
                    /\ \A q \in DOMAIN fs.files \ written :
                           fs'.files[q] = fs.files[q]
                    /\ \A q \in written :
                           fs'.files[q].j
                               = (IF q[2] = io'.filename.v \o ".png" THEN "png"
                                  ELSE IF q[2] = io'.filename.v \o ".pdf" THEN "pdf"
                                  ELSE "csv")]_vars

\* plot_price_distribution was called with a filename, then plot_convergence
\* without one: the four files of the first call are in output_dir, no
\* <filename>.csv is, and the figure was returned.
C22_Witness ==
    /\ entry = "visualization"
    /\ io.n = 2
    /\ io.op = "plot_convergence"
    /\ io.filename = PyNone
    /\ io.ret = Figure
    /\ visualizer.output_dir = "figures"
    /\ exists(fs, path_join("figures", "test_plot.png"))
    /\ exists(fs, path_join("figures", "test_plot.pdf"))
    /\ exists(fs, path_join("figures", "test_plot_prices.csv"))
    /\ exists(fs, path_join("figures", "test_plot_payoffs.csv"))
    /\ ~exists(fs, path_join("figures", "test_plot.csv"))

\* ------------------------------------------------------------------------
\* C25
\* ------------------------------------------------------------------------

\* The arguments with which the main pricing step or the analytical solution
\* raises: a negative size of the draw, a division by a strike of 0.
RaisesBeforePlots(args) == args.iterations < 0 \/ args.strike = 0

\* C25: a run of price_options in which the pricing or the analytical
\* solution raises returns 1 and writes no results.json (no file is created
\* or changed); a run in which the visualization block raises, the exception
\* caught and reported as a warning, goes on to write results.json, with the
\* results dictionary in it, and returns 0.
C25_ErrorHandling ==
    [][(cli.pc = "idle" /\ cli'.pc = "done") =>
          /\ RaisesBeforePlots(cli'.args) =>
                 /\ cli'.exit = 1
                 /\ cli'.error # "none"
                 /\ fs'.files = fs.files
          /\ cli'.warning =>
                 /\ ~RaisesBeforePlots(cli'.args)
                 /\ cli'.exit = 0
                 /\ exists(fs', path_join(cli'.args.output_dir, "results.json"))
                 /\ fs'.files[path_join(cli'.args.output_dir, "results.json")]
                        = json_dump(cli'.results)]_vars

\* The analytical solution raised after the main pricing step had drawn: the
\* run returned 1 and the results of an earlier run are still in the file.
C25_Witness ==
    /\ cli.pc = "done"
    /\ cli.exit = 1
    /\ cli.error = "ZeroDivisionError"
    /\ cli.args.strike = 0
    /\ consumed > 0
    /\ exists(fs, path_join("out", "results.json"))
    /\ fs.files[path_join("out", "results.json")]
           = json_dump(PyDict(<< <<PyStr("old"), PyInt(1)>> >>))

\* ------------------------------------------------------------------------
\* C26
\* ------------------------------------------------------------------------

\* The orders n draws can come in.
DrawOrders(n) == {pi \in [1..n -> 1..n] : \A i, j \in 1..n : pi[i] = pi[j] => i = j}

\* The price the operation op of pricer p returns when the generator yields
\* the given draws.
PriceOf(op, p, draws) ==
    CASE op = "call" -> CallSim(p, draws, 1).option_price
      [] op = "put" -> PutSim(p, draws, 1).option_price
      [] op = "acall" -> AntitheticCallSim(p, draws, 1).option_price
      [] op = "aput" -> AntitheticPutSim(p, draws, 1).option_price

WrittenResults ==
    PyGet(load_results_value(fs, "results.json", cli.args.output_dir),
          PyStr("results"))

\* C27: when price_options has completed, call_price, put_price,
\* analytical_call and analytical_put in results.json are the values of the
\* main pricing step for the requested volatility, iteration count and
\* method, and the recorded errors are the distances of the recorded
\* prices: call_error = |call_price - analytical_call|, put_error =
\* |put_price - analytical_put|.
C27_ReportedValues ==
    (cli.pc = "done" /\ cli.exit = 0) =>
        \E written \in {WrittenResults} :
            /\ PyGet(written, PyStr("call_price")) = PyFloat(cli.main.call_price)
            /\ PyGet(written, PyStr("put_price")) = PyFloat(cli.main.put_price)
            /\ PyGet(written, PyStr("analytical_call")) = PyFloat(cli.main.bs_call)
            /\ PyGet(written, PyStr("analytical_put")) = PyFloat(cli.main.bs_put)
            /\ PyGet(written, PyStr("call_error")).v
                   = FAbs(FSub(PyGet(written, PyStr("call_price")).v,
                               PyGet(written, PyStr("analytical_call")).v))
            /\ PyGet(written, PyStr("put_error")).v
                   = FAbs(FSub(PyGet(written, PyStr("put_price")).v,
                               PyGet(written, PyStr("analytical_put")).v))

\* ------------------------------------------------------------------------
\* C28
\* ------------------------------------------------------------------------

\* The draws the claim gives each operation, by the iteration count alone.
ClaimedDraws(op, N) ==
    CASE op \in {"call", "put"} -> N
      [] op \in {"acall", "aput"} -> N \div 2
      [] op = "ci" -> 30 * (N \div 30)
      [] op = "bs" -> 0

\* The k-th value the generator yields, counted from its first draw.
DrawAt(k) == stream[((k - 1) % Period) + 1]

\* C28: an operation takes from the generator the number of draws its
\* iteration count N fixes (N for the standard simulations, N // 2 for the
\* antithetic ones, 30 * (N // 30) for confidence_intervals, none for
\* bs_analytical_price), so that the total consumed is the sum over the
\* operations so far; the draws it prices are the generator's next ones, the
\* first after the last draw of the operation before it, none taken twice.
C28_DrawsConsumed ==
    [][(nops' = nops + 1) =>
          \E n \in {ClaimedDraws(last', pricer.iterations)} :
              /\ consumed' = consumed + n
              /\ pos' = (consumed' % Period) + 1
              /\ last' \in {"call", "put", "acall", "aput"} =>
                     /\ batch'.ndraws = n
                     /\ Len(batch'.rand) >= n
                     /\ \A i \in 1..n : batch'.rand[i] = DrawAt(consumed + i)
              /\ last' = "ci" =>
                     /\ \A k \in 1..30 :
                            /\ Len(ci'.rands[k]) = pricer.iterations \div 30
                            /\ \A i \in 1..Len(ci'.rands[k]) :
                                   ci'.rands[k][i]
                                       = DrawAt(consumed
                                                + (k - 1) * (pricer.iterations \div 30)
                                                + i)
              /\ last' = "bs" => (pos' = pos /\ batch' = batch)]_vars

\* confidence_intervals ran after a standard simulation of 91 iterations:
\* 91 draws, then 30 sub-runs of 3, 181 in all, the first sub-run on the
\* draws after the simulation's last.
C28_Witness ==
    /\ nops = 2
    /\ last = "ci"
    /\ pricer.iterations = 91
    /\ batch.ndraws = 91
    /\ ci.ndraws = 90
    /\ ci.pos0 = 2
    /\ consumed = 181
    /\ stream[1] # stream[2]
    /\ ci.rands[1][1] = stream[2]

\* ------------------------------------------------------------------------
\* C29
\* ------------------------------------------------------------------------

\* C29: for every terminal price S_T a simulation has priced, with the
\* pricer's strike E, the payoff in the batch is the call payoff or the put
\* payoff of S_T, and the two payoff functions satisfy call payoff - put
\* payoff = S_T - E; at most one of the two is non-zero, and both are zero
\* exactly when S_T = E.
C29_PayoffParity ==
    batch.op # "none" =>
        \A i \in DOMAIN batch.stock_price :
            \E S_T \in {batch.stock_price[i]},
               call \in {call_payoff(batch.stock_price[i], pricer.E)},
               put \in {put_payoff(batch.stock_price[i], pricer.E)} :
                /\ batch.payoffs[i] = (IF IsCallOp(batch.op) THEN call ELSE put)
                /\ IsFinite(S_T) /\ IsFinite(call) /\ IsFinite(put)
                /\ call - put = S_T - pricer.E
                /\ call = 0 \/ put = 0
                /\ (call = 0 /\ put = 0) <=> S_T = pricer.E

\* A put simulation has priced a path that ends below the strike, with a
\* payoff, and a path that ends above it, with none.
C29_Witness ==
    /\ batch.op = "put"
    /\ \E i, j \in DOMAIN batch.stock_price :
          /\ batch.stock_price[i] < pricer.E
          /\ batch.payoffs[i] = pricer.E - batch.stock_price[i]
          /\ batch.stock_price[j] > pricer.E
          /\ batch.payoffs[j] = 0

\* ------------------------------------------------------------------------
\* C30
\* ------------------------------------------------------------------------

\* C30: in every plot_price_distribution call of a run of price_options the
\* payoffs given are those of the stock prices given: call_payoffs[i] =
\* max(stock_prices[i] - E, 0) in the call plot, put_payoffs[i] =
\* max(E - stock_prices[i], 0) in the put plot, for every index i.
C30_SameBatch ==
    (cli.pc = "done" /\ cli.exit = 0) =>
        \A k \in DOMAIN cli.plots :
            cli.plots[k].op = "plot_price_distribution" =>
                /\ Len(cli.plots[k].payoffs) = Len(cli.plots[k].stock_prices)
                /\ \A i \in DOMAIN cli.plots[k].stock_prices :
                       cli.plots[k].payoffs[i]
                           = (IF cli.plots[k].filename = "call_distributions"
                              THEN FMax(FSub(cli.plots[k].stock_prices[i],
                                             cli.args.strike), 0)
                              ELSE FMax(FSub(cli.args.strike,
                                             cli.plots[k].stock_prices[i]), 0))

====
